---- MODULE Spec2Model ----
(***************************************************************************)
(* Model of fill_every_form_tool (src/main.py), the form-filling           *)
(* orchestrator of the crawler, together with its submission oracle        *)
(* detect_submission_change.  The browser is the environment: every driver *)
(* read returns what the page currently shows, the page may change when an *)
(* action is dispatched and while the tool sleeps, and a driver call may   *)
(* raise.  The __main__ block and the agent that calls the tools on the    *)
(* shared browser session are modelled with the tools as opaque calls.     *)
(***************************************************************************)
EXTENDS Integers, Sequences, FiniteSets, TLC

(* ------------------------------ bounds -------------------------------- *)
MaxItems == 2
MaxIframes == 1
MaxForms == 2
MaxLogin == 2
MaxLinks == 1
MaxFaults == 1
MaxNavigations == 1
MaxTurns == 2
MaxParallel == 2

(* ------------------------------ strings ------------------------------- *)
UpperAlpha == "ABCDEFGHIJKLMNOPQRSTUVWXYZ"
LowerAlpha == "abcdefghijklmnopqrstuvwxyz"

CharAt(s, i) == SubSeq(s, i, i)

\* str.lower() of one character
LowerTable ==
    [c \in {CharAt(UpperAlpha, i) : i \in 1..26} |->
        CharAt(LowerAlpha, CHOOSE i \in 1..26 : CharAt(UpperAlpha, i) = c)]

LowerChar(c) == IF c \in DOMAIN LowerTable THEN LowerTable[c] ELSE c

RECURSIVE lower(_)
lower(s) == IF Len(s) = 0 THEN "" ELSE LowerChar(CharAt(s, 1)) \o lower(SubSeq(s, 2, Len(s)))

\* Python's `sub in s` for strings
Contains(s, sub) ==
    \E i \in 1..(Len(s) - Len(sub) + 1) : SubSeq(s, i, i + Len(sub) - 1) = sub

RECURSIVE join(_, _)
join(sep, entries) ==
    IF Len(entries) = 0 THEN ""
    ELSE IF Len(entries) = 1 THEN entries[1]
    ELSE entries[1] \o sep \o join(sep, Tail(entries))

(* ------------------------------ the page ------------------------------ *)
PlainMarkup == "<form>Email</form>"
ThankYouMarkup == "<p>Thank You!</p>"
SuccessMarkup == "<p>Login Success</p>"
LandingMarkup == "<a>Sign in</a>"
SignupMarkup == "<form>Newsletter</form>"

success_indicators ==
    <<"thank you", "submitted", "success", "message sent", "your submission",
      "welcome", "dashboard", "account", "profile">>

(* ------------------------------ elements ------------------------------- *)
\* An element of the page: what get_attribute, tag_name, text and is_enabled
\* return for it, whether it is displayed when the page loads, which label
\* XPaths of lines 501-521 match it, the tags of its ancestors (nearest
\* first) and the form unit it is a descendant of.
Element ==
    [eid |-> 0, unit |-> "", tag |-> "input", itype |-> "", name |-> "", id |-> "",
     placeholder |-> "", pattern |-> "", aria |-> "", labels |-> {}, enabled |-> TRUE,
     displayed |-> TRUE, text |-> "", parents |-> <<"form">>, form_of |-> "",
     sibling_of |-> {}]

\* The pages under test: the elements of each form unit, in document order
Form1Elements ==
    << [Element EXCEPT !.eid = 11, !.unit = "form1", !.form_of = "form1", !.itype = "email",
                       !.name = "email", !.placeholder = "Your Email",
                       !.labels = {"label", "text"}],
       [Element EXCEPT !.eid = 12, !.unit = "form1", !.form_of = "form1",
                       !.itype = "checkbox", !.name = "agree"],
       [Element EXCEPT !.eid = 13, !.unit = "form1", !.form_of = "form1", !.tag = "button",
                       !.text = "Submit"] >>
Form2Elements ==
    << [Element EXCEPT !.eid = 21, !.unit = "form2", !.form_of = "form2", !.itype = "hidden",
                       !.name = "csrf", !.displayed = FALSE],
       [Element EXCEPT !.eid = 22, !.unit = "form2", !.form_of = "form2", !.itype = "radio",
                       !.name = "plan"],
       [Element EXCEPT !.eid = 23, !.unit = "form2", !.form_of = "form2", !.itype = "radio",
                       !.name = "plan"],
       [Element EXCEPT !.eid = 24, !.unit = "form2", !.form_of = "form2", !.tag = "textarea",
                       !.name = "message", !.displayed = FALSE],
       [Element EXCEPT !.eid = 25, !.unit = "form2", !.form_of = "form2", !.itype = "submit",
                       !.id = "user_go", !.parents = <<"div", "form">>] >>
Form3Elements ==
    << [Element EXCEPT !.eid = 31, !.unit = "form3", !.form_of = "form3", !.itype = "text",
                       !.id = "phone", !.pattern = "[0-9]{10}"],
       [Element EXCEPT !.eid = 32, !.unit = "form3", !.form_of = "form3", !.tag = "a",
                       !.text = "Send message"] >>
\* a form with one email input and one submit button
SignupElements ==
    << [Element EXCEPT !.eid = 41, !.unit = "signup", !.form_of = "signup", !.itype = "email",
                       !.name = "email"],
       [Element EXCEPT !.eid = 42, !.unit = "signup", !.form_of = "signup", !.tag = "button",
                       !.itype = "submit", !.text = "Subscribe"] >>
BodyElements ==
    << [Element EXCEPT !.eid = 91, !.unit = "body", !.itype = "date", !.parents = <<"body">>],
       [Element EXCEPT !.eid = 92, !.unit = "body", !.itype = "password",
                       !.parents = <<"body">>],
       [Element EXCEPT !.eid = 93, !.unit = "body", !.itype = "text", !.name = "username",
                       !.parents = <<"body">>],
       [Element EXCEPT !.eid = 94, !.unit = "body", !.tag = "span", !.text = "Contact us",
                       !.parents = <<"body">>] >>

UnitElements(unit) ==
    CASE unit = "form1" -> Form1Elements
      [] unit = "form2" -> Form2Elements
      [] unit = "body" -> BodyElements
      [] unit = "signup" -> SignupElements
      [] OTHER -> Form3Elements

FormName(i) == "form" \o ToString(i)

RECURSIVE FormsElements(_)
FormsElements(n) == IF n = 0 THEN <<>> ELSE FormsElements(n - 1) \o UnitElements(FormName(n))

\* The pages the browser can show.  forms: the number of form elements;
\* iframes: the number of iframe elements; links: the elements the login XPath
\* of line 398 matches, each with "is displayed and enabled".
\* The page under test with n forms (bare inputs in the body when n = 0); the
\* page with one form embeds the iframes.
FormPage(n) ==
    [url |-> "/form", source |-> PlainMarkup, forms |-> n,
     iframes |-> IF n = 1 THEN MaxIframes ELSE 0, links |-> <<>>]
\* the page a submission navigates to
ThankYouPage ==
    [url |-> "/thank-you", source |-> ThankYouMarkup, forms |-> 0, iframes |-> 0,
     links |-> <<FALSE>>]
\* the page under test replaced in place by a success message
SuccessPage ==
    [url |-> "/form", source |-> SuccessMarkup, forms |-> 0, iframes |-> 0, links |-> <<>>]
\* a landing page whose last login link is the one that can be clicked
LandingPage ==
    [url |-> "/", source |-> LandingMarkup, forms |-> 0, iframes |-> 0,
     links |-> [i \in 1..MaxLinks |-> i = MaxLinks]]
\* a page with a single form and no iframe: one email input, one submit button
SignupPage ==
    [url |-> "/signup", source |-> SignupMarkup, forms |-> 1, iframes |-> 0, links |-> <<>>]
\* the pages a dispatched action can lead to
Pages == {FormPage(n) : n \in 0..MaxForms} \cup {ThankYouPage, SuccessPage, LandingPage}
\* the pages the tool can be started on
StartPages == Pages \cup {SignupPage}

\* all elements of a page, in document order
PageElements(p) ==
    IF p.source = SignupMarkup THEN SignupElements
    ELSE IF p.source # PlainMarkup THEN <<>>
    ELSE IF p.forms = 0 THEN BodyElements ELSE FormsElements(p.forms)

\* the XPath of lines 353-354 and 363-364
is_login_field(e) ==
    /\ e.tag = "input"
    /\ \/ Contains(e.itype, "email") \/ Contains(e.name, "email") \/ Contains(e.id, "email")
       \/ Contains(e.id, "username") \/ Contains(e.name, "username")

\* What the driver reads of lines 348-354 return for a page
Snapshot(p) ==
    [url |-> p.url, source |-> p.source, forms |-> p.forms,
     login |-> Len(SelectSeq(PageElements(p), is_login_field))]

\* the login fields of line 410 on the pages under test
login_fields_on == [p \in StartPages |-> Snapshot(p).login]

\* the snapshots the oracle alone is exercised on
Urls == {"/", "/form", "/thank-you"}
Markups == {PlainMarkup, ThankYouMarkup, SuccessMarkup, "<form>Name</form>",
            "<p>Your Submission is in</p>"}
Snapshots == [url : Urls, source : Markups, forms : 0..MaxForms, login : 0..MaxLogin]

\* XPath ".//input | .//textarea | .//select" (line 479)
IsField(e) == e.tag \in {"input", "textarea", "select"}
\* XPath "*[self::button or self::input or self::div or self::span or self::a]"
IsButtonLike(e) == e.tag \in {"button", "input", "div", "span", "a"}

\* the descendants of a form unit; the body contains the whole page
Descendants(unit, p) == IF unit = "body" THEN PageElements(p) ELSE UnitElements(unit)

InitiallySelected == {23}

(* -------------------- detect_submission_change ------------------------ *)
ErrMsg == "driver error"

\* an indicator test that compares the markup as it is, without lowering it
has_indicator_case_sensitive(source) ==
    \E k \in 1..Len(success_indicators) : Contains(source, success_indicators[k])

has_indicator(source) ==
    \E k \in 1..Len(success_indicators) : Contains(lower(source), success_indicators[k])

source_changed(s0, s1) == s1.source # s0.source /\ has_indicator(s1.source)

\* a login rule that fires on any difference of the counts
login_success_on_any_change(s0, s1) == s1.login # s0.login

login_success(s0, s1) == s0.login > 0 /\ s1.login < s0.login

change_reasons(s0, s1) ==
    (IF s1.url # s0.url
     THEN <<"URL changed from " \o s0.url \o " to " \o s1.url>> ELSE <<>>)
    \o (IF s1.forms # s0.forms
        THEN <<"Form count changed from " \o ToString(s0.forms) \o " to " \o ToString(s1.forms)>>
        ELSE <<>>)
    \o (IF source_changed(s0, s1) THEN <<"Success indicator found in page source">> ELSE <<>>)
    \o (IF login_success(s0, s1)
        THEN <<"Login fields reduced from " \o ToString(s0.login) \o " to " \o ToString(s1.login)>>
        ELSE <<>>)

change_result(s0, s1) ==
    s1.url # s0.url \/ s1.forms # s0.forms \/ source_changed(s0, s1) \/ login_success(s0, s1)

\* an oracle that logs nothing when it detects a change
detect_submission_change_silent(s0, s1, fail) ==
    IF fail
    THEN [result |-> FALSE, log |-> <<"Error in detect_submission_change: " \o ErrMsg>>]
    ELSE [result |-> change_result(s0, s1), log |-> <<>>]

\* an oracle that takes a failed read for a change
detect_submission_change_trusting(s0, s1, fail) ==
    IF fail \/ change_result(s0, s1)
    THEN [result |-> TRUE,
          log |-> <<"Submission change detected: " \o join(", ", change_reasons(s0, s1))>>]
    ELSE [result |-> FALSE, log |-> <<>>]

\* s0: the reads before the settle delay, s1: the reads after it,
\* fail: a driver read raised (before or after the delay)
detect_submission_change(s0, s1, fail) ==
    IF fail
    THEN [result |-> FALSE, log |-> <<"Error in detect_submission_change: " \o ErrMsg>>]
    ELSE IF change_result(s0, s1)
    THEN [result |-> TRUE,
          log |-> <<"Submission change detected: " \o join(", ", change_reasons(s0, s1))>>]
    ELSE [result |-> FALSE, log |-> <<>>]

\* the oracle on the pages under test: p1 is what the browser shows when the
\* first reads are made, p2 what it shows after the settle delay
oracle_on ==
    [p1 \in StartPages, p2 \in StartPages, fail \in BOOLEAN |->
        detect_submission_change(Snapshot(p1), Snapshot(p2), fail)]

(* ------------------------- guess_input_value --------------------------- *)
\* str.strip() for blanks
RECURSIVE strip(_)
strip(s) ==
    IF Len(s) = 0 THEN s
    ELSE IF CharAt(s, 1) = " " THEN strip(SubSeq(s, 2, Len(s)))
    ELSE IF CharAt(s, Len(s)) = " " THEN strip(SubSeq(s, 1, Len(s) - 1))
    ELSE s

\* a format check that asks for the "@" alone
email_shaped_at_only(v) == Contains(v, "@")

\* lines 201, 219, 473: the "basic email format check"
email_shaped(v) == Contains(v, "@") /\ Contains(v, ".")

\* value of the first item of the map that satisfies Test, "" when none does
first_value(items, Test(_)) ==
    LET hits == SelectSeq(items, Test) IN IF Len(hits) = 0 THEN "" ELSE hits[1][2]

identity(f) == strip(lower(f.name) \o lower(f.id) \o lower(f.placeholder))

\* one sample of each generator of lines 245-264 (random and Faker output)
FakeDigits == "0123456789"
FakeWord == "lorem"
FakeEmail == "jane@example.org"
FakePhone == "555-0100"
FakePassword == "aB3$efgh1JkL"
FakeDate == "1999-12-31"
FakeName == "Jane Roe"
FakeParagraph == "Lorem ipsum. Dolor sit."
FakeAddress == "1 Main St"
FakeText == "Lorem ipsum dolor."

\* a keyword chain that tests name/user before the date type
synthetic_value_name_before_date(f) ==
    LET input_type == lower(f.itype)
        nip == identity(f)
    IN IF f.pattern # "" /\ Contains(f.pattern, "10") THEN FakeDigits
       ELSE IF f.pattern # "" /\ Contains(f.pattern, "[a-zA-Z]") THEN FakeWord
       ELSE IF Contains(nip, "email") THEN FakeEmail
       ELSE IF Contains(nip, "phone") \/ Contains(input_type, "tel") THEN FakePhone
       ELSE IF input_type = "password" THEN FakePassword
       ELSE IF Contains(nip, "name") \/ Contains(nip, "user") THEN FakeName
       ELSE IF input_type = "date" THEN FakeDate
       ELSE IF \E x \in {"message", "comment", "description"} : Contains(nip, x)
            THEN FakeParagraph
       ELSE IF Contains(nip, "address") THEN FakeAddress
       ELSE FakeText

\* lines 245-264
synthetic_value(f) ==
    LET input_type == lower(f.itype)
        nip == identity(f)
    IN IF f.pattern # "" /\ Contains(f.pattern, "10") THEN FakeDigits
       ELSE IF f.pattern # "" /\ Contains(f.pattern, "[a-zA-Z]") THEN FakeWord
       ELSE IF Contains(nip, "email") THEN FakeEmail
       ELSE IF Contains(nip, "phone") \/ Contains(input_type, "tel") THEN FakePhone
       ELSE IF input_type = "password" THEN FakePassword
       ELSE IF input_type = "date" THEN FakeDate
       ELSE IF Contains(nip, "name") \/ Contains(nip, "user") THEN FakeName
       ELSE IF \E x \in {"message", "comment", "description"} : Contains(nip, x)
            THEN FakeParagraph
       ELSE IF Contains(nip, "address") THEN FakeAddress
       ELSE FakeText

\* a scan that keeps every input of the page
visible_inputs_counting_all(inputs, shown) == inputs

\* lines 212-213: shown is the set of elements the page currently displays
visible_inputs(inputs, shown) ==
    LET Vis(e) == e.eid \in shown /\ e.itype \notin {"hidden", "submit", "button"}
    IN SelectSeq(inputs, Vis)

\* a classifier without the key match of lines 240-243
guess_input_value_no_key_match(f, custom_data, inputs, shown, vis_fail) ==
    LET input_type == lower(f.itype)
        nip == identity(f)
        IsEmail(item) == email_shaped(item[2])
        email_value == first_value(custom_data, IsEmail)
        vis == visible_inputs(inputs, shown)
        few == ~vis_fail /\ Len(vis) <= 3
        LoginLike(e) ==
            \E x \in {"user", "email", "login", "account"} :
                Contains(lower(e.name) \o lower(e.id) \o lower(e.placeholder), x)
        UserItem(item) ==
            \/ Contains(item[2], "@")
            \/ Contains(lower(item[1]), "username")
            \/ Contains(lower(item[1]), "user")
    IN IF Len(custom_data) = 0 THEN synthetic_value(f)
       ELSE IF (Contains(nip, "email") \/ input_type = "email") /\ email_value # ""
       THEN email_value
       ELSE IF few /\ email_value # "" THEN email_value
       ELSE IF few /\ (\E i \in 1..Len(vis) : LoginLike(vis[i]))
                   /\ (\E i \in 1..Len(custom_data) : UserItem(custom_data[i]))
       THEN first_value(custom_data, UserItem)
       ELSE synthetic_value(f)

\* Lines 182-264.  custom_data: the items of the map; inputs: the result of
\* find_elements(By.TAG_NAME, "input"); vis_fail: a driver call of the try
\* block of lines 210-237 raised.
guess_input_value(f, custom_data, inputs, shown, vis_fail) ==
    LET input_type == lower(f.itype)
        nip == identity(f)
        IsEmail(item) == email_shaped(item[2])
        email_value == first_value(custom_data, IsEmail)
        vis == visible_inputs(inputs, shown)
        few == ~vis_fail /\ Len(vis) <= 3
        LoginLike(e) ==
            \E x \in {"user", "email", "login", "account"} :
                Contains(lower(e.name) \o lower(e.id) \o lower(e.placeholder), x)
        UserItem(item) ==
            \/ Contains(item[2], "@")
            \/ Contains(lower(item[1]), "username")
            \/ Contains(lower(item[1]), "user")
        KeyIn(item) == Contains(nip, lower(item[1]))
    IN IF Len(custom_data) = 0 THEN synthetic_value(f)
       ELSE IF (Contains(nip, "email") \/ input_type = "email") /\ email_value # ""
       THEN email_value
       ELSE IF few /\ email_value # "" THEN email_value
       ELSE IF few /\ (\E i \in 1..Len(vis) : LoginLike(vis[i]))
                   /\ (\E i \in 1..Len(custom_data) : UserItem(custom_data[i]))
       THEN first_value(custom_data, UserItem)
       ELSE IF \E i \in 1..Len(custom_data) : KeyIn(custom_data[i])
       THEN first_value(custom_data, KeyIn)
       ELSE synthetic_value(f)

(* ------------------------------ fill pass ------------------------------ *)
\* a log entry that keeps the name of the context and drops the text
Log_name_only(name, text) == "[" \o name \o "]"

\* a log entry of a context
Log(name, text) == "[" \o name \o "] " \o text

\* an entry of the history: what was done, for which form unit (the value of
\* form_count), in which cascade stage, to which element, with which value
OpT(kind, unit, stage, target, value) ==
    [kind |-> kind, unit |-> unit, stage |-> stage, target |-> target, value |-> value]
\* A point of the fill pass where a driver call may raise: at names the
\* statement, k the element (its eid) or the position it concerns.
FaultPoint(at, k) == [at |-> at, k |-> k]

\* lines 489-493
attr_match(f) ==
    \/ lower(f.itype) = "email"
    \/ Contains(lower(f.name), "email")
    \/ Contains(lower(f.id), "email")
    \/ Contains(lower(f.name), "user")
    \/ Contains(lower(f.id), "user")

\* line 513: aria-label or placeholder contains "email"
aria_match(f) ==
    Contains(lower(f.aria), "email") \/ Contains(lower(f.placeholder), "email")

\* Lines 478-524: the elements of email_fields, with repetitions, in the
\* order they are appended.  The XPath queries of lines 501-521 are page-wide.
email_fields(all_inputs, page_fields, F) ==
    LET Attr(f) == FaultPoint("attr", f.eid) \notin F /\ attr_match(f)
        Td(f) == f.tag = "input" /\ "td" \in f.labels
        Lbl(f) == f.tag = "input" /\ "label" \in f.labels
        Aria(f) == f.tag = "input" /\ aria_match(f)
        Txt(f) == f.tag = "input" /\ "text" \in f.labels
        Ran(j) == \A i \in 1..j : FaultPoint("xpath", i) \notin F
    IN SelectSeq(all_inputs, Attr)
       \o (IF Ran(1) THEN SelectSeq(page_fields, Td) ELSE <<>>)
       \o (IF Ran(2) THEN SelectSeq(page_fields, Lbl) ELSE <<>>)
       \o (IF Ran(3) THEN SelectSeq(page_fields, Aria) ELSE <<>>)
       \o (IF Ran(4) THEN SelectSeq(page_fields, Txt) ELSE <<>>)

\* the value of itype after the loop of lines 482-496
RECURSIVE itype_after(_, _)
itype_after(all_inputs, F) ==
    IF Len(all_inputs) = 0 THEN "unbound"
    ELSE LET f == all_inputs[Len(all_inputs)]
         IN IF FaultPoint("attr", f.eid) \notin F THEN lower(f.itype)
            ELSE itype_after(SubSeq(all_inputs, 1, Len(all_inputs) - 1), F)

\* Lines 527-537, the email field at position i of email_fields
email_step(f, i, acc, cx) ==
    IF FaultPoint("email", i) \in cx.F
    THEN [acc EXCEPT !.log = Append(@, Log(cx.name, "Error filling email field: " \o ErrMsg))]
    ELSE IF f.eid \in acc.shown /\ f.enabled
    THEN [acc EXCEPT
            !.ops = Append(@, OpT("email_write", cx.unit, 0, f.eid, cx.email_value)),
            !.log = Append(@, Log(cx.name, "Filled email field with '" \o cx.email_value \o "'."))]
    ELSE acc

RECURSIVE email_pass(_, _, _, _)
email_pass(efs, i, acc, cx) ==
    IF i > Len(efs) THEN acc ELSE email_pass(efs, i + 1, email_step(efs[i], i, acc, cx), cx)

\* a click on a radio input selects it and deselects the rest of its group
radio_clicked(selected, f, all_inputs) ==
    (selected \ {all_inputs[i].eid : i \in {j \in 1..Len(all_inputs) :
                    all_inputs[j].itype = "radio" /\ all_inputs[j].name = f.name}})
    \cup {f.eid}

\* a generic pass that skips the matched fields whether or not there is an
\* email value to write
generic_step_skipping_matched(f, acc, cx) ==
    LET itype == lower(f.itype)
        err(t) == Log(cx.name, "Error filling input (" \o t \o "): " \o ErrMsg)
        a1 == [acc EXCEPT !.itype = itype]
        a2 == IF f.eid \in acc.shown THEN a1
              ELSE [a1 EXCEPT !.shown = @ \cup {f.eid},
                              !.log = Append(@, Log(cx.name, "Forced visibility of " \o itype \o " input."))]
        failed == [a2 EXCEPT !.log = Append(@, err(itype))]
        act_fault == FaultPoint("act", f.eid) \in cx.F
        visited == IF cx.persist THEN acc.visited ELSE {}
        value == guess_input_value(f, cx.arg, cx.inputs, a2.shown,
                                   FaultPoint("vis", f.eid) \in cx.F)
    IN IF acc.raised THEN acc
       ELSE IF FaultPoint("type", f.eid) \in cx.F
       THEN IF acc.itype = "unbound" THEN [acc EXCEPT !.raised = TRUE]
            ELSE [acc EXCEPT !.log = Append(@, err(acc.itype))]
       ELSE IF itype = "hidden" THEN a1
       ELSE IF ~f.enabled THEN a1
       ELSE IF f.eid \in cx.efields THEN a2
       ELSE IF itype = "checkbox"
       THEN IF act_fault THEN failed
            ELSE [a2 EXCEPT
                    !.selected = @ \cup {f.eid},
                    !.ops = IF f.eid \in acc.selected THEN @
                            ELSE Append(@, OpT("field_click", cx.unit, 0, f.eid, "")),
                    !.log = Append(@, Log(cx.name, "Checked a checkbox."))]
       ELSE IF itype = "radio"
       THEN IF act_fault THEN failed
            ELSE IF f.name # "" /\ f.name \notin visited
            THEN [a2 EXCEPT
                    !.selected = radio_clicked(@, f, cx.all_inputs),
                    !.ops = IF f.eid \in acc.selected THEN @
                            ELSE Append(@, OpT("field_click", cx.unit, 0, f.eid, "")),
                    !.visited = IF cx.persist THEN @ \cup {f.name} ELSE @,
                    !.log = Append(@, Log(cx.name, "Selected radio button '" \o f.name \o "'."))]
            ELSE a2
       ELSE IF itype \in {"button", "submit", "reset", "file"} THEN a2
       ELSE IF act_fault THEN failed
       ELSE [a2 EXCEPT
               !.ops = Append(@, OpT("write", cx.unit, 0, f.eid, value)),
               !.log = Append(@, Log(cx.name, "Filled input (" \o itype \o ") with '" \o value \o "'."))]

\* Lines 540-574, one input
generic_step(f, acc, cx) ==
    LET itype == lower(f.itype)
        err(t) == Log(cx.name, "Error filling input (" \o t \o "): " \o ErrMsg)
        a1 == [acc EXCEPT !.itype = itype]
        a2 == IF f.eid \in acc.shown THEN a1
              ELSE [a1 EXCEPT !.shown = @ \cup {f.eid},
                              !.log = Append(@, Log(cx.name, "Forced visibility of " \o itype \o " input."))]
        failed == [a2 EXCEPT !.log = Append(@, err(itype))]
        act_fault == FaultPoint("act", f.eid) \in cx.F
        visited == IF cx.persist THEN acc.visited ELSE {}
        value == guess_input_value(f, cx.arg, cx.inputs, a2.shown,
                                   FaultPoint("vis", f.eid) \in cx.F)
    IN IF acc.raised THEN acc
       ELSE IF FaultPoint("type", f.eid) \in cx.F
       THEN IF acc.itype = "unbound" THEN [acc EXCEPT !.raised = TRUE]
            ELSE [acc EXCEPT !.log = Append(@, err(acc.itype))]
       ELSE IF itype = "hidden" THEN a1
       ELSE IF ~f.enabled THEN a1
       ELSE IF cx.email_value # "" /\ f.eid \in cx.efields THEN a2
       ELSE IF itype = "checkbox"
       THEN IF act_fault THEN failed
            ELSE [a2 EXCEPT
                    !.selected = @ \cup {f.eid},
                    !.ops = IF f.eid \in acc.selected THEN @
                            ELSE Append(@, OpT("field_click", cx.unit, 0, f.eid, "")),
                    !.log = Append(@, Log(cx.name, "Checked a checkbox."))]
       ELSE IF itype = "radio"
       THEN IF act_fault THEN failed
            ELSE IF f.name # "" /\ f.name \notin visited
            THEN [a2 EXCEPT
                    !.selected = radio_clicked(@, f, cx.all_inputs),
                    !.ops = IF f.eid \in acc.selected THEN @
                            ELSE Append(@, OpT("field_click", cx.unit, 0, f.eid, "")),
                    !.visited = IF cx.persist THEN @ \cup {f.name} ELSE @,
                    !.log = Append(@, Log(cx.name, "Selected radio button '" \o f.name \o "'."))]
            ELSE a2
       ELSE IF itype \in {"button", "submit", "reset", "file"} THEN a2
       ELSE IF act_fault THEN failed
       ELSE [a2 EXCEPT
               !.ops = Append(@, OpT("write", cx.unit, 0, f.eid, value)),
               !.log = Append(@, Log(cx.name, "Filled input (" \o itype \o ") with '" \o value \o "'."))]

RECURSIVE generic_pass(_, _, _, _)
generic_pass(fs, i, acc, cx) ==
    IF i > Len(fs) THEN acc ELSE generic_pass(fs, i + 1, generic_step(fs[i], acc, cx), cx)

\* Lines 469-574 for one form unit: the log entries, the writes and clicks,
\* and the state of the page's inputs afterwards.
FillFields(name, unit, all_inputs, page_fields, custom_data, visited, persist, d, F) ==
    LET IsEmail(item) == email_shaped(item[2])
        IsInput(f) == f.tag = "input"
        email_value == first_value(custom_data, IsEmail)
        efs == email_fields(all_inputs, page_fields, F)
        cx == [name |-> name, unit |-> unit, F |-> F, arg |-> custom_data,
               email_value |-> email_value,
               efields |-> {efs[i].eid : i \in 1..Len(efs)},
               inputs |-> SelectSeq(page_fields, IsInput),
               all_inputs |-> all_inputs, persist |-> persist]
        acc0 == [log |-> <<>>, ops |-> <<>>, selected |-> d.selected, shown |-> d.shown,
                 visited |-> visited, itype |-> itype_after(all_inputs, F), raised |-> FALSE]
        acc1 == IF email_value # "" /\ Len(efs) > 0 THEN email_pass(efs, 1, acc0, cx) ELSE acc0
    IN generic_pass(all_inputs, 1, acc1, cx)

(* --------------------------- submit candidates ------------------------- *)
\* a candidate test that does not ask for an ancestor form
is_submit_candidate_anywhere(e, unit) ==
    \/ \E k \in {"submit", "send", "save", "confirm", "message"} : Contains(lower(e.text), k)
    \/ e.tag \in {"button", "input"}

\* Lines 330-343.  find_element(ancestor::form) raises for an element outside
\* every form, which the bare except turns into False.
is_submit_candidate(e, unit) ==
    /\ \/ \E k \in {"submit", "send", "save", "confirm", "message"} : Contains(lower(e.text), k)
       \/ e.tag \in {"button", "input"}
    /\ e.form_of # ""
    /\ (e.form_of = unit \/ unit \in e.sibling_of)

\* a detection that runs the page-wide pass whatever the scoped pass found
potential_buttons_of_both(unit, p, shown) ==
    LET Ok(e) == IsButtonLike(e) /\ e.eid \in shown /\ e.enabled /\ is_submit_candidate(e, unit)
    IN SelectSeq(Descendants(unit, p), Ok) \o SelectSeq(PageElements(p), Ok)

\* Lines 583-592: the form-scoped pass and, when it finds nothing, the
\* page-wide pass
potential_buttons_of(unit, p, shown) ==
    LET Ok(e) == IsButtonLike(e) /\ e.eid \in shown /\ e.enabled /\ is_submit_candidate(e, unit)
        scoped == SelectSeq(Descendants(unit, p), Ok)
    IN IF Len(scoped) > 0 THEN scoped ELSE SelectSeq(PageElements(p), Ok)

\* Lines 266-276: the element itself when it is a button, div, a or span,
\* else the nearest such ancestor among its parent and grandparent, else the
\* element.  tag is the tag of what is returned, self whether it is the element.
find_parent_clickable(e, shown) ==
    LET clickable == {"button", "div", "a", "span"}
        ups == {i \in 1..2 : i <= Len(e.parents) /\ e.parents[i] \in clickable}
    IN IF e.eid \in shown /\ e.enabled /\ e.tag \in clickable
       THEN [self |-> TRUE, tag |-> e.tag]
       ELSE IF ups # {}
       THEN [self |-> FALSE, tag |-> e.parents[CHOOSE i \in ups : \A j \in ups : i <= j]]
       ELSE [self |-> TRUE, tag |-> e.tag]

\* CSS "input[type='text'], input[type='email'], textarea" (line 613)
text_inputs_of(unit, p) ==
    LET T(e) == (e.tag = "input" /\ e.itype \in {"text", "email"}) \/ e.tag = "textarea"
    IN SelectSeq(Descendants(unit, p), T)

\* a short-circuit test that also accepts the phrase "success"
thank_you_or_success_shown(source) ==
    \/ Contains(lower(source), "thank you") \/ Contains(lower(source), "your submission")
    \/ Contains(lower(source), "success")

\* line 457 and line 652
thank_you_shown(source) ==
    Contains(lower(source), "thank you") \/ Contains(lower(source), "your submission")

\* the test of lines 457 and 652 on the pages under test
thank_you_on == [p \in StartPages |-> thank_you_shown(p.source)]

\* a report with its two counts exchanged
Report_swapped(n, m, log) ==
    "Detected " \o ToString(m) \o " form(s) across contexts, submitted " \o ToString(n)
        \o ":\n" \o join("\n", log)

\* line 681
Report(n, m, log) ==
    "Detected " \o ToString(n) \o " form(s) across contexts, submitted " \o ToString(m)
        \o ":\n" \o join("\n", log)

\* line 627
JsRetries == 2

TimeoutMsg == "timeout"
IndexMsg == "list index out of range"

(* ------------------------------ state --------------------------------- *)
VARIABLES
    pc,               \* position in fill_every_form_tool
    summary,          \* the action log (line 390)
    form_count,       \* line 446
    submitted_forms,  \* line 447
    submitted,        \* line 580, per form
    contexts,         \* context names, line 435
    ctx_i,            \* index of the context being processed (line 449)
    iframes,          \* ids of the iframes found at line 436
    iframe_i,         \* index of the iframe being enumerated (line 437)
    forms,            \* the form units listed at lines 462-464
    form_i,           \* index of the form unit being processed (line 466)
    potential_buttons,\* line 581
    btn_i,            \* index in potential_buttons (line 594)
    js_try,           \* the retry counter `_` of line 627
    nearby,           \* the elements listed at line 659
    elem_i,           \* index in nearby (line 660)
    last_oracle,      \* the last call of detect_submission_change
    arg,              \* the semantic map the tool was called with
    visited_radio_groups, \* line 561
    py_locals,        \* what locals() is in this build: "shared" or "snapshot"
    dom,              \* which elements are selected and which are displayed
    page,             \* what the browser shows in the active context
    active,           \* the driver's active browsing context, 0 = default content
    faults,           \* driver calls that raised so far
    navs,             \* times the browser replaced the page after a dispatched action
    ops,              \* history: the actions dispatched to the page and the oracle's answers
    report,           \* the returned string (line 681)
    probe,            \* a call of the oracle, the classifier or the fill pass on its own
    main_pc,          \* position in the __main__ block (line 744), "off" when it is not run
    session,          \* the shared Browser of line 78: "open" until driver.quit() has run
    running,          \* the tool calls of the agent step in progress, with their phases
    quits,            \* history: the calls of Browser.quit, who made them, whether they raised
    turns,            \* the steps agent.invoke has taken (line 1818)
    pending           \* the kind of exception raised inside the try of line 745, if any

ctl == <<pc, ctx_i, iframe_i, form_i, btn_i, js_try, elem_i>>
lists == <<contexts, iframes, forms, potential_buttons, nearby>>
counts == <<form_count, submitted_forms, submitted>>
env == <<page, active, faults, navs>>
fill_state == <<visited_radio_groups, py_locals, dom>>
host == <<main_pc, session, running, quits, turns, pending>>
fixed == <<arg, probe, host>>
vars == <<ctl, lists, counts, env, summary, last_oracle, fixed, fill_state, ops, report>>

NoOracle == [called |-> FALSE, fail |-> FALSE, result |-> FALSE]

\* the __main__ block is not part of the run
HostOff ==
    /\ main_pc = "off" /\ session = "open" /\ running = <<>> /\ quits = <<>>
    /\ turns = 0 /\ pending = "none"
NoProbe == [called |-> FALSE]

\* The semantic map as its items in iteration order; None and {} are both
\* falsy at lines 192 and 471 and are the empty sequence here.
EmailArg == << <<"email", "a@b.com">> >>
Args == {<<>>, EmailArg}

CanFail == faults < MaxFaults

\* what the browser can show after a step: the page it shows now or a page
\* an action led to
Shown == Pages \cup {page}

\* The browser shows p1 once an action is dispatched and p2 after the settle
\* delay of the oracle: the number of times the page was replaced
Replaced(p0, p1, p2) == (IF p1 # p0 THEN 1 ELSE 0) + (IF p2 # p1 THEN 1 ELSE 0)

\* the page follows an action that was dispatched and observed until p2
Settle(p1, p2) ==
    /\ Replaced(page, p1, p2) <= MaxNavigations - navs
    /\ navs' = navs + Replaced(page, p1, p2)
    /\ page' = p2

\* an action that raised before anything was dispatched leaves the page alone
Undisturbed(p1, p2) == p1 = page /\ p2 = page /\ UNCHANGED <<page, navs>>

InitialDom ==
    LET all == BodyElements \o Form1Elements \o Form2Elements \o Form3Elements
               \o SignupElements
    IN [selected |-> InitiallySelected,
        shown |-> {all[i].eid : i \in {j \in 1..Len(all) : all[j].displayed}}]

Init ==
    /\ pc = "entry"
    /\ summary = <<>>
    /\ form_count = 0 /\ submitted_forms = 0 /\ submitted = FALSE
    /\ contexts = <<>> /\ ctx_i = 0
    /\ iframes = <<>> /\ iframe_i = 0
    /\ forms = <<>> /\ form_i = 0
    /\ potential_buttons = <<>> /\ btn_i = 0
    /\ js_try = 0
    /\ nearby = <<>> /\ elem_i = 0
    /\ last_oracle = NoOracle
    /\ arg \in Args
    /\ visited_radio_groups = {}
    /\ py_locals = "unset"
    /\ dom = InitialDom
    /\ page \in StartPages
    /\ active = 0
    /\ faults = 0
    /\ navs = 0
    /\ ops = <<>>
    /\ report = ""
    /\ probe = NoProbe
    /\ HostOff

(* --------------------------- entry point ------------------------------- *)
\* An entry-point step that ends the invocation instead of logging
LocateEntryPoint_aborting ==
    /\ pc = "entry"
    /\ pc' = "raised"
    /\ UNCHANGED <<ctx_i, iframe_i, form_i, btn_i, js_try, elem_i, lists, counts, env,
                   summary, last_oracle, fixed, fill_state, ops, report>>

\* The XPath of line 418: the elements of the page whose text contains
\* "contact" in any case.  Line 415 is the else of `if login_links`, and
\* WebDriverWait.until never returns an empty list, so nothing reads this.
contact_links(p) ==
    SelectSeq(PageElements(p), LAMBDA e : Contains(lower(e.text), "contact"))

\* index of the first link that is displayed and enabled, 0 when none is
first_interactable(links) ==
    IF \E i \in 1..Len(links) : links[i]
    THEN CHOOSE i \in 1..Len(links) : links[i] /\ \A j \in 1..(i - 1) : ~links[j]
    ELSE 0

Op(kind, stage) == OpT(kind, form_count, stage, 0, "")

\* the history entry of an increment of submitted_forms
Recorded(stage) == OpT("success", form_count, stage, 0, "")

\* Lines 395-432.  WebDriverWait.until returns only a non-empty list and
\* raises TimeoutException otherwise, so the else branch of line 415 is never
\* taken.  p1: the page the click leads to; fault: the driver call that
\* raises, if any.
LocateEntryPoint ==
    /\ pc = "entry"
    /\ \E p1 \in Shown, fault \in {"none", "wait", "probe", "click"} :
        LET links == page.links
            i == first_interactable(links)
            err == <<"[main page] Error navigating to form: " \o ErrMsg>>
            timeout == <<"[main page] Error navigating to form: " \o TimeoutMsg>>
            clicked == <<"[main page] Clicked potential 'login/sign in' link to access form.">>
        IN /\ fault # "none" => CanFail
           /\ fault \in {"probe", "click"} => Len(links) > 0
           /\ fault = "click" => i > 0
           /\ faults' = IF fault = "none" THEN faults ELSE faults + 1
           /\ IF fault = "wait" \/ fault = "probe"
              THEN summary' = summary \o err /\ Undisturbed(p1, p1) /\ UNCHANGED ops
              ELSE IF Len(links) = 0
              THEN summary' = summary \o timeout /\ Undisturbed(p1, p1) /\ UNCHANGED ops
              ELSE IF i = 0
              THEN Undisturbed(p1, p1) /\ UNCHANGED <<summary, ops>>
              ELSE IF fault = "click"
              THEN summary' = summary \o err /\ Undisturbed(p1, p1) /\ UNCHANGED ops
              ELSE /\ Settle(p1, p1)
                   /\ ops' = Append(ops, Op("entry_click", 0))
                   \* line 410: wait for a login field, TimeoutException if none appears
                   /\ summary' = summary \o clicked \o (IF login_fields_on[p1] = 0 THEN timeout ELSE <<>>)
    /\ pc' = "list_iframes"
    /\ UNCHANGED <<ctx_i, iframe_i, form_i, btn_i, js_try, elem_i, lists, counts,
                   active, last_oracle, fixed, fill_state, report>>

(* ------------------------ context enumeration -------------------------- *)
\* the id attribute of the i-th iframe of the page under test
IframeId(i) == IF i % 2 = 1 THEN "" ELSE "f" \o ToString(i)

\* Line 436: not inside any try
ListIframes ==
    /\ pc = "list_iframes"
    /\ \/ /\ iframes' = [i \in 1..page.iframes |-> IframeId(i)]
          /\ contexts' = <<"main page">>
          /\ iframe_i' = 1
          /\ pc' = "enum"
          /\ UNCHANGED faults
       \/ /\ CanFail
          /\ faults' = faults + 1
          /\ pc' = "raised"
          /\ UNCHANGED <<iframes, contexts, iframe_i>>
    /\ UNCHANGED <<ctx_i, form_i, btn_i, js_try, elem_i, forms, potential_buttons, nearby,
                   counts, page, active, navs, summary, last_oracle, fixed, fill_state,
                   ops, report>>

\* Lines 437-444, one iframe: switch into it, read its id, switch back; an
\* exception anywhere is logged and the remaining statements are skipped.
EnumIframe ==
    /\ pc = "enum"
    /\ iframe_i <= Len(iframes)
    /\ \E fault \in {"none", "switch", "attr", "back"}, p1 \in Shown :
        LET id == IF iframes[iframe_i] = "" THEN "unnamed" ELSE iframes[iframe_i]
            err == <<"Error accessing iframe: " \o ErrMsg>>
        IN /\ fault # "none" => CanFail
           /\ faults' = IF fault = "none" THEN faults ELSE faults + 1
           /\ CASE fault = "none" ->
                    /\ contexts' = Append(contexts, "iframe '" \o id \o "'")
                    /\ active' = 0
                    /\ page' = IF active = 0 THEN page ELSE p1
                    /\ UNCHANGED summary
                [] fault = "switch" ->
                    /\ summary' = summary \o err
                    /\ UNCHANGED <<contexts, active, page>>
                [] fault = "attr" ->
                    /\ summary' = summary \o err
                    /\ active' = iframe_i
                    /\ page' = p1
                    /\ UNCHANGED contexts
                [] fault = "back" ->
                    /\ contexts' = Append(contexts, "iframe '" \o id \o "'")
                    /\ summary' = summary \o err
                    /\ active' = iframe_i
                    /\ page' = p1
    /\ iframe_i' = iframe_i + 1
    /\ UNCHANGED <<pc, ctx_i, form_i, btn_i, js_try, elem_i, iframes, forms,
                   potential_buttons, nearby, counts, navs, last_oracle, fixed,
                   fill_state, ops, report>>

\* an enumeration that starts over when it reaches the end of the list
EnumDone_rewinding ==
    /\ pc = "enum"
    /\ iframe_i > Len(iframes)
    /\ iframe_i' = 1
    /\ contexts' = <<"main page">>
    /\ UNCHANGED <<pc, ctx_i, form_i, btn_i, js_try, elem_i, iframes, forms,
                   potential_buttons, nearby, counts, env, summary, last_oracle, fixed,
                   fill_state, ops, report>>

\* Lines 446-447
EnumDone ==
    /\ pc = "enum"
    /\ iframe_i > Len(iframes)
    /\ form_count' = 0
    /\ submitted_forms' = 0
    /\ ctx_i' = 1
    /\ pc' = "context"
    /\ UNCHANGED <<iframe_i, form_i, btn_i, js_try, elem_i, lists, submitted, env,
                   summary, last_oracle, fixed, fill_state, ops, report>>

(* ---------------------------- context loop ----------------------------- *)
\* Lines 449-460.  Every entry of contexts holds the driver itself, so the
\* test of line 450 is false and line 452 never runs.  page_source is read
\* outside any try.
BeginContext ==
    /\ pc = "context"
    /\ ctx_i <= Len(contexts)
    /\ LET reached == OpT("context", form_count, 0, ctx_i, page.source)
       IN \/ /\ thank_you_on[page]
             /\ summary' = Append(summary, Log(contexts[ctx_i],
                                   "Detected 'Thank you' page; submission already successful."))
             /\ submitted_forms' = submitted_forms + 1
             /\ ops' = ops \o <<reached, Recorded(0)>>
             /\ pc' = "return"
             /\ UNCHANGED faults
          \/ /\ ~thank_you_on[page]
             /\ ops' = Append(ops, reached)
             /\ pc' = "list_forms"
             /\ UNCHANGED <<summary, submitted_forms, faults>>
          \/ /\ CanFail
             /\ faults' = faults + 1
             /\ pc' = "raised"
             /\ UNCHANGED <<summary, submitted_forms, ops>>
    /\ UNCHANGED <<ctx_i, iframe_i, form_i, btn_i, js_try, elem_i, lists, form_count,
                   submitted, page, active, navs, last_oracle, fixed, fill_state, report>>

\* line 449, the list of contexts is exhausted
ContextsDone ==
    /\ pc = "context"
    /\ ctx_i > Len(contexts)
    /\ pc' = "return"
    /\ UNCHANGED <<ctx_i, iframe_i, form_i, btn_i, js_try, elem_i, lists, counts, env,
                   summary, last_oracle, fixed, fill_state, ops, report>>

\* Lines 462-464, outside any try
ListForms ==
    /\ pc = "list_forms"
    /\ \/ /\ forms' = IF page.forms = 0 THEN <<"body">>
                       ELSE IF page = SignupPage THEN <<"signup">>
                       ELSE [i \in 1..page.forms |-> FormName(i)]
          /\ form_i' = 1
          /\ pc' = "fill"
          /\ UNCHANGED faults
       \/ /\ CanFail
          /\ faults' = faults + 1
          /\ pc' = "raised"
          /\ UNCHANGED <<forms, form_i>>
    /\ UNCHANGED <<ctx_i, iframe_i, btn_i, js_try, elem_i, contexts, iframes,
                   potential_buttons, nearby, counts, page, active, navs, summary,
                   last_oracle, fixed, fill_state, ops, report>>

(* ------------------------------ fill ----------------------------------- *)
\* the subsets of S with at most k elements
RECURSIVE SubsetsUpTo(_, _)
SubsetsUpTo(S, k) ==
    IF k <= 0 THEN {{}}
    ELSE LET less == SubsetsUpTo(S, k - 1) IN less \cup {T \cup {x} : T \in less, x \in S}

\* the points of the fill pass of a unit where a driver call may raise
FillFaultPoints(all_inputs) ==
    {FaultPoint("list", 0)}
    \cup {FaultPoint(at, all_inputs[i].eid) :
             at \in {"attr", "type", "act", "vis"}, i \in 1..Len(all_inputs)}
    \cup {FaultPoint("xpath", j) : j \in 1..4}
    \cup {FaultPoint("email", j) : j \in 1..2}

HasRadio(all_inputs) == \E i \in 1..Len(all_inputs) : lower(all_inputs[i].itype) = "radio"

\* Lines 466-577
FillForm ==
    /\ pc = "fill"
    /\ LET unit == forms[form_i]
           all_inputs == SelectSeq(Descendants(unit, page), IsField)
       IN \E F \in SubsetsUpTo(FillFaultPoints(all_inputs), MaxFaults - faults),
             mode \in {"shared", "snapshot"} :
           LET Fill(G) == FillFields(contexts[ctx_i], form_count + 1, all_inputs,
                                     PageElements(page), arg, visited_radio_groups,
                                     mode = "shared", dom, G)
               r == Fill(F)
           IN /\ py_locals # "unset" => mode = py_locals
              \* once listing the fields has raised no further call is made
              /\ FaultPoint("list", 0) \in F => F = {FaultPoint("list", 0)}
              /\ (py_locals = "unset" /\ ~HasRadio(all_inputs)) => mode = "shared"
              /\ py_locals' = IF HasRadio(all_inputs) THEN mode ELSE py_locals
              /\ faults' = faults + Cardinality(F)
              /\ form_count' = form_count + 1
              /\ IF FaultPoint("list", 0) \in F
                 THEN /\ pc' = "raised"
                      /\ ops' = Append(ops, OpT("form", form_count + 1, 0, 0, ""))
                      /\ UNCHANGED <<summary, dom, visited_radio_groups>>
                 ELSE /\ pc' = IF r.raised THEN "raised" ELSE "candidates"
                      /\ summary' = summary \o r.log
                      /\ ops' = ops \o <<OpT("form", form_count + 1, 0, 0, "")>> \o r.ops
                      /\ dom' = [selected |-> r.selected, shown |-> r.shown]
                      /\ visited_radio_groups' = r.visited
    /\ UNCHANGED <<ctx_i, iframe_i, form_i, btn_i, js_try, elem_i, lists,
                   submitted_forms, submitted, page, active, navs, last_oracle, fixed,
                   report>>

(* ------------------------------ cascade -------------------------------- *)
\* the history entry of a dispatched submission action; moved: the URL had
\* changed by the time the oracle took its first snapshot
Dispatch(kind, stage, target, p1) ==
    [kind |-> kind, unit |-> form_count, stage |-> stage, target |-> target,
     value |-> IF p1.url # page.url THEN "moved" ELSE ""]

\* the history entry of an answer of the oracle
Answer(out, fail) ==
    OpT("oracle", form_count, 0, 0,
        IF fail THEN "error" ELSE IF out.result THEN "true" ELSE "false")

\* Lines 580-592: an exception is caught at line 608 and skips stage 1
DetectCandidates ==
    /\ pc = "candidates"
    /\ submitted' = FALSE
    /\ \/ /\ potential_buttons' = potential_buttons_of(forms[form_i], page, dom.shown)
          /\ btn_i' = 1
          /\ pc' = "click"
          /\ UNCHANGED <<summary, faults>>
       \/ /\ CanFail
          /\ faults' = faults + 1
          /\ summary' = Append(summary, Log(contexts[ctx_i],
                                "Error detecting submit button: " \o ErrMsg))
          /\ pc' = "enter"
          /\ UNCHANGED <<potential_buttons, btn_i>>
    /\ UNCHANGED <<ctx_i, iframe_i, form_i, js_try, elem_i, contexts, iframes, forms,
                   nearby, form_count, submitted_forms, page, active, navs, last_oracle,
                   fixed, fill_state, ops, report>>

\* Handlers that start the log afresh with their own entry
ClickHandlers_clearing(btn, again) ==
    IF again
    THEN /\ summary' = <<Log(contexts[ctx_i], "Error detecting submit button: " \o ErrMsg)>>
         /\ pc' = "enter"
         /\ UNCHANGED btn_i
    ELSE /\ summary' = <<Log(contexts[ctx_i],
                             "Error clicking candidate '" \o btn.text \o "': " \o ErrMsg)>>
         /\ pc' = "click"
         /\ btn_i' = btn_i + 1

\* The handlers of lines 606-609 after a raise while candidate btn is handled:
\* line 607 reads btn.text again; when that raises too the exception reaches
\* line 608 and ends stage 1.
ClickHandlers(btn, again) ==
    IF again
    THEN /\ summary' = Append(summary, Log(contexts[ctx_i],
                               "Error detecting submit button: " \o ErrMsg))
         /\ pc' = "enter"
         /\ UNCHANGED btn_i
    ELSE /\ summary' = Append(summary, Log(contexts[ctx_i],
                               "Error clicking candidate '" \o btn.text \o "': " \o ErrMsg))
         /\ pc' = "click"
         /\ btn_i' = btn_i + 1

\* Lines 594-607, one candidate.  p1: the page once the click is dispatched,
\* p2: the page after the settle delay of the oracle.  fault: the driver call
\* that raises: before the click is dispatched, at line 599 after it, inside
\* the oracle, or at line 601 once the oracle has answered true; again: the
\* read of btn.text in the handler of line 607 raises as well.
ClickCandidate ==
    /\ pc = "click"
    /\ btn_i <= Len(potential_buttons)
    /\ \E fault \in {"none", "before", "after", "oracle", "detected"}, again \in BOOLEAN,
          p1 \in Shown, p2 \in Shown :
        LET btn == potential_buttons[btn_i]
            clickable == find_parent_clickable(btn, dom.shown)
            n == (IF fault = "none" THEN 0 ELSE 1) + (IF again THEN 1 ELSE 0)
            out == oracle_on[p1, p2, fault = "oracle"]
            click == [Dispatch("click", 1, btn.eid, p1) EXCEPT
                        !.value = (IF clickable.self THEN "self" ELSE "parent") \o @]
            attempted == Log(contexts[ctx_i], "Attempted submission by clicking candidate: '"
                             \o btn.text \o "' (tag: " \o clickable.tag \o ")")
        IN /\ n <= MaxFaults - faults
           /\ again => fault \in {"before", "after", "detected"}
           /\ fault = "detected" => out.result
           /\ faults' = faults + n
           /\ CASE fault = "before" ->
                    /\ ClickHandlers(btn, again)
                    /\ Undisturbed(p1, p2)
                    /\ UNCHANGED <<ops, last_oracle, submitted, submitted_forms>>
                [] fault = "after" ->
                    /\ p2 = p1
                    /\ Settle(p1, p2)
                    /\ ops' = Append(ops, click)
                    /\ ClickHandlers(btn, again)
                    /\ UNCHANGED <<last_oracle, submitted, submitted_forms>>
                [] fault = "detected" ->
                    /\ Settle(p1, p2)
                    /\ ops' = ops \o <<click, Answer(out, FALSE)>>
                    /\ last_oracle' = [called |-> TRUE, fail |-> FALSE, result |-> TRUE]
                    /\ LET logged == summary \o <<attempted>> \o out.log
                       IN IF again
                          THEN /\ summary' = Append(logged, Log(contexts[ctx_i],
                                        "Error detecting submit button: " \o ErrMsg))
                               /\ pc' = "enter"
                               /\ UNCHANGED btn_i
                          ELSE /\ summary' = Append(logged, Log(contexts[ctx_i],
                                        "Error clicking candidate '" \o btn.text \o "': "
                                        \o ErrMsg))
                               /\ pc' = "click"
                               /\ btn_i' = btn_i + 1
                    /\ UNCHANGED <<submitted, submitted_forms>>
                [] OTHER ->
                    /\ Settle(p1, p2)
                    /\ ops' = ops \o <<click, Answer(out, fault = "oracle")>>
                                \o (IF out.result THEN <<Recorded(1)>> ELSE <<>>)
                    /\ last_oracle' = [called |-> TRUE, fail |-> fault = "oracle",
                                        result |-> out.result]
                    /\ IF out.result
                       THEN /\ summary' = summary \o <<attempted>> \o out.log
                                   \o <<Log(contexts[ctx_i], "Submission detected after clicking '"
                                            \o btn.text \o "'.")>>
                            /\ submitted' = TRUE
                            /\ submitted_forms' = submitted_forms + 1
                            /\ pc' = "confirm"
                            /\ UNCHANGED btn_i
                       ELSE /\ summary' = summary \o <<attempted>> \o out.log
                            /\ btn_i' = btn_i + 1
                            /\ pc' = "click"
                            /\ UNCHANGED <<submitted, submitted_forms>>
    /\ UNCHANGED <<ctx_i, iframe_i, form_i, js_try, elem_i, lists, form_count, active, fixed,
                   fill_state, report>>

\* line 594, no candidate is left
ClickDone ==
    /\ pc = "click"
    /\ btn_i > Len(potential_buttons)
    /\ pc' = "enter"
    /\ UNCHANGED <<ctx_i, iframe_i, form_i, btn_i, js_try, elem_i, lists, counts, env,
                   summary, last_oracle, fixed, fill_state, ops, report>>

\* Lines 611-623 (submitted is false here): line 613 is outside the try
EnterKey ==
    /\ pc = "enter"
    /\ \E fault \in {"none", "list", "send", "oracle"}, p1 \in Shown, p2 \in Shown :
        LET text_inputs == text_inputs_of(forms[form_i], page)
            out == oracle_on[p1, p2, fault = "oracle"]
        IN /\ fault # "none" => CanFail
           /\ fault \in {"send", "oracle"} => Len(text_inputs) > 0
           /\ faults' = IF fault = "none" THEN faults ELSE faults + 1
           /\ CASE fault = "list" ->
                    /\ pc' = "raised"
                    /\ Undisturbed(p1, p2)
                    /\ UNCHANGED <<summary, ops, last_oracle, submitted, submitted_forms>>
                [] fault = "send" ->
                    /\ summary' = Append(summary, Log(contexts[ctx_i],
                                          "Error sending Enter: " \o ErrMsg))
                    /\ pc' = "js"
                    /\ Undisturbed(p1, p2)
                    /\ UNCHANGED <<ops, last_oracle, submitted, submitted_forms>>
                [] fault \in {"none", "oracle"} /\ Len(text_inputs) = 0 ->
                    /\ pc' = "js"
                    /\ Undisturbed(p1, p2)
                    /\ UNCHANGED <<summary, ops, last_oracle, submitted, submitted_forms>>
                [] fault \in {"none", "oracle"} /\ Len(text_inputs) > 0 ->
                    /\ Settle(p1, p2)
                    /\ ops' = ops \o <<Dispatch("enter", 2, text_inputs[1].eid, p1),
                                        Answer(out, fault = "oracle")>>
                                \o (IF out.result THEN <<Recorded(2)>> ELSE <<>>)
                    /\ summary' = summary
                           \o <<Log(contexts[ctx_i], "Submitted form by sending Enter key.")>>
                           \o out.log
                    /\ last_oracle' = [called |-> TRUE, fail |-> fault = "oracle",
                                        result |-> out.result]
                    /\ submitted' = out.result
                    /\ submitted_forms' = IF out.result THEN submitted_forms + 1
                                          ELSE submitted_forms
                    /\ pc' = IF out.result THEN "confirm" ELSE "js"
    /\ js_try' = 0
    /\ UNCHANGED <<ctx_i, iframe_i, form_i, btn_i, elem_i, lists, form_count, active, fixed,
                   fill_state, report>>

\* Lines 627-649, attempt js_try + 1: wait for a form, take the form at the
\* unit's index, run the submit script, ask the oracle; the break of line 646
\* ends the loop whatever the oracle answered.  A raise is logged and the
\* next attempt follows.
JsSubmit ==
    /\ pc = "js"
    /\ js_try < JsRetries
    /\ \E fault \in {"none", "script", "oracle"}, p1 \in Shown, p2 \in Shown :
        LET out == oracle_on[p1, p2, fault = "oracle"]
            failed(msg) ==
                /\ summary' = Append(summary, Log(contexts[ctx_i],
                        "JavaScript submission attempt " \o ToString(js_try + 1)
                        \o " failed: " \o msg))
                /\ js_try' = js_try + 1
                /\ Undisturbed(p1, p2)
                /\ UNCHANGED <<pc, ops, last_oracle, submitted, submitted_forms>>
            ready == page.forms >= form_i
        IN /\ fault # "none" => CanFail
           /\ fault = "oracle" => ready
           /\ faults' = IF fault = "none" THEN faults ELSE faults + 1
           /\ IF fault = "script" THEN failed(ErrMsg)
              ELSE IF page.forms = 0 THEN failed(TimeoutMsg)
              ELSE IF ~ready THEN failed(IndexMsg)
              ELSE /\ Settle(p1, p2)
                   /\ ops' = ops \o <<Dispatch("js", 3, 0, p1), Answer(out, fault = "oracle")>>
                               \o (IF out.result THEN <<Recorded(3)>> ELSE <<>>)
                   /\ summary' = summary
                          \o <<Log(contexts[ctx_i], "Submitted form using enhanced JavaScript.")>>
                          \o out.log
                   /\ last_oracle' = [called |-> TRUE, fail |-> fault = "oracle",
                                       result |-> out.result]
                   /\ submitted' = out.result
                   /\ submitted_forms' = IF out.result THEN submitted_forms + 1
                                         ELSE submitted_forms
                   /\ pc' = "confirm"
                   /\ UNCHANGED js_try
    /\ UNCHANGED <<ctx_i, iframe_i, form_i, btn_i, elem_i, lists, form_count, active, fixed,
                   fill_state, report>>

\* line 627, both attempts raised
JsDone ==
    /\ pc = "js"
    /\ js_try >= JsRetries
    /\ pc' = "confirm"
    /\ UNCHANGED <<ctx_i, iframe_i, form_i, btn_i, js_try, elem_i, lists, counts, env,
                   summary, last_oracle, fixed, fill_state, ops, report>>

\* Lines 651-657: page_source is read, outside any try, only when submitted
Confirm ==
    /\ pc = "confirm"
    /\ \/ /\ submitted
          /\ thank_you_on[page]
          /\ summary' = Append(summary, Log(contexts[ctx_i],
                                "Confirmed 'Thank you' page after submission."))
          /\ pc' = "context_end"
          /\ UNCHANGED faults
       \/ /\ submitted
          /\ ~thank_you_on[page]
          /\ pc' = "form_end"
          /\ UNCHANGED <<summary, faults>>
       \/ /\ submitted
          /\ CanFail
          /\ faults' = faults + 1
          /\ pc' = "raised"
          /\ UNCHANGED summary
       \/ /\ ~submitted
          /\ pc' = "last_resort"
          /\ UNCHANGED <<summary, faults>>
    /\ UNCHANGED <<ctx_i, iframe_i, form_i, btn_i, js_try, elem_i, lists, counts, page,
                   active, navs, last_oracle, fixed, fill_state, ops, report>>

\* the handler of lines 671-672 ends stage 4
LastResortFailed ==
    /\ summary' = Append(summary, Log(contexts[ctx_i], "Last resort click failed: " \o ErrMsg))
    /\ pc' = "form_end"

\* Lines 658-661: the button-like elements of the page that are displayed
\* and enabled, in document order
ListNearby ==
    /\ pc = "last_resort"
    /\ \/ /\ LET Ok(e) == IsButtonLike(e) /\ e.eid \in dom.shown /\ e.enabled
             IN nearby' = SelectSeq(PageElements(page), Ok)
          /\ elem_i' = 1
          /\ pc' = "last_click"
          /\ UNCHANGED <<summary, faults>>
       \/ /\ CanFail
          /\ faults' = faults + 1
          /\ LastResortFailed
          /\ UNCHANGED <<nearby, elem_i>>
    /\ UNCHANGED <<ctx_i, iframe_i, form_i, btn_i, js_try, contexts, iframes, forms,
                   potential_buttons, counts, page, active, navs, last_oracle, fixed,
                   fill_state, ops, report>>

\* Lines 660-670, one element
LastResortClick ==
    /\ pc = "last_click"
    /\ elem_i <= Len(nearby)
    /\ \E fault \in {"none", "before", "after", "oracle"}, p1 \in Shown, p2 \in Shown :
        LET e == nearby[elem_i]
            clickable == find_parent_clickable(e, dom.shown)
            out == oracle_on[p1, p2, fault = "oracle"]
            click == [Dispatch("click", 4, e.eid, p1) EXCEPT
                        !.value = (IF clickable.self THEN "self" ELSE "parent") \o @]
        IN /\ fault # "none" => CanFail
           /\ faults' = IF fault = "none" THEN faults ELSE faults + 1
           /\ CASE fault = "before" ->
                    /\ LastResortFailed
                    /\ Undisturbed(p1, p2)
                    /\ UNCHANGED <<ops, last_oracle, submitted, submitted_forms, elem_i>>
                [] fault = "after" ->
                    /\ p2 = p1
                    /\ Settle(p1, p2)
                    /\ ops' = Append(ops, click)
                    /\ LastResortFailed
                    /\ UNCHANGED <<last_oracle, submitted, submitted_forms, elem_i>>
                [] OTHER ->
                    /\ Settle(p1, p2)
                    /\ ops' = ops \o <<click, Answer(out, fault = "oracle")>>
                                \o (IF out.result THEN <<Recorded(4)>> ELSE <<>>)
                    /\ summary' = summary
                           \o <<Log(contexts[ctx_i], "Last resort click on '" \o e.text
                                    \o "' (tag: " \o clickable.tag \o ")")>>
                           \o out.log
                    /\ last_oracle' = [called |-> TRUE, fail |-> fault = "oracle",
                                        result |-> out.result]
                    /\ submitted' = out.result
                    /\ submitted_forms' = IF out.result THEN submitted_forms + 1
                                          ELSE submitted_forms
                    /\ IF out.result
                       THEN pc' = "form_end" /\ UNCHANGED elem_i
                       ELSE pc' = "last_click" /\ elem_i' = elem_i + 1
    /\ UNCHANGED <<ctx_i, iframe_i, form_i, btn_i, js_try, lists, form_count, active, fixed,
                   fill_state, report>>

\* line 660, no element is left
LastResortDone ==
    /\ pc = "last_click"
    /\ elem_i > Len(nearby)
    /\ pc' = "form_end"
    /\ UNCHANGED <<ctx_i, iframe_i, form_i, btn_i, js_try, elem_i, lists, counts, env,
                   summary, last_oracle, fixed, fill_state, ops, report>>

\* a form loop without the break of lines 674-675
FormEnd_continuing ==
    /\ pc = "form_end"
    /\ IF form_i >= Len(forms)
       THEN pc' = "context_end" /\ UNCHANGED form_i
       ELSE pc' = "fill" /\ form_i' = form_i + 1
    /\ UNCHANGED <<ctx_i, iframe_i, btn_i, js_try, elem_i, lists, counts, env, summary,
                   last_oracle, fixed, fill_state, ops, report>>

\* Lines 674-675 and the loop of line 466
FormEnd ==
    /\ pc = "form_end"
    /\ IF submitted \/ form_i >= Len(forms)
       THEN pc' = "context_end" /\ UNCHANGED form_i
       ELSE pc' = "fill" /\ form_i' = form_i + 1
    /\ UNCHANGED <<ctx_i, iframe_i, btn_i, js_try, elem_i, lists, counts, env, summary,
                   last_oracle, fixed, fill_state, ops, report>>

\* a context loop without the break of lines 678-679
ContextEnd_continuing ==
    /\ pc = "context_end"
    /\ \E p1 \in Shown : page' = IF active = 0 THEN page ELSE p1
    /\ active' = 0
    /\ pc' = "context" /\ ctx_i' = ctx_i + 1
    /\ UNCHANGED <<iframe_i, form_i, btn_i, js_try, elem_i, lists, counts, navs, summary,
                   last_oracle, fixed, fill_state, ops, report, faults>>

\* Lines 677-679: switch_to.default_content() is outside any try
ContextEnd ==
    /\ pc = "context_end"
    /\ \/ /\ \E p1 \in Shown : page' = IF active = 0 THEN page ELSE p1
          /\ active' = 0
          /\ IF submitted_forms > 0
             THEN pc' = "return" /\ UNCHANGED ctx_i
             ELSE pc' = "context" /\ ctx_i' = ctx_i + 1
          /\ UNCHANGED faults
       \/ /\ CanFail
          /\ faults' = faults + 1
          /\ pc' = "raised"
          /\ UNCHANGED <<page, active, ctx_i>>
    /\ UNCHANGED <<iframe_i, form_i, btn_i, js_try, elem_i, lists, counts, navs, summary,
                   last_oracle, fixed, fill_state, ops, report>>

\* line 681
Return ==
    /\ pc = "return"
    /\ report' = Report(form_count, submitted_forms, summary)
    /\ pc' = "done"
    /\ UNCHANGED <<ctx_i, iframe_i, form_i, btn_i, js_try, elem_i, lists, counts, env,
                   summary, last_oracle, fixed, fill_state, ops>>

Next ==
    \/ LocateEntryPoint \/ ListIframes \/ EnumIframe \/ EnumDone
    \/ BeginContext \/ ContextsDone \/ ListForms \/ FillForm
    \/ DetectCandidates \/ ClickCandidate \/ ClickDone
    \/ EnterKey \/ JsSubmit \/ JsDone
    \/ Confirm \/ ListNearby \/ LastResortClick \/ LastResortDone
    \/ FormEnd \/ ContextEnd \/ Return

Spec == Init /\ [][Next]_vars

\* Every driver call returns or raises, and every wait and sleep of the tool
\* is bounded, so the step the tool is at is eventually taken: weak fairness
\* of Next.  WF_vars(Next) is []<>~ENABLED <<Next>>_vars \/ []<><<Next>>_vars,
\* and a step of Next is enabled exactly until the tool has returned or raised
\* (every step moves pc or a loop index), which is how ENABLED is written here.
SpecLive == Spec /\ ([]<>(pc \in {"done", "raised"}) \/ []<><<Next>>_vars)

(* ---------------------- the oracle on its own -------------------------- *)
\* detect_submission_change called once on a pair of snapshots: the reads of
\* lines 348-354 return s0, the reads of lines 360-364 return s1; fail: one of
\* the reads raised.
CallOracle ==
    /\ pc = "oracle"
    /\ \E s0 \in Snapshots, s1 \in Snapshots, fail \in BOOLEAN :
        LET out == detect_submission_change(s0, s1, fail)
        IN /\ probe' = [called |-> TRUE, s0 |-> s0, s1 |-> s1, fail |-> fail,
                        result |-> out.result]
           /\ summary' = summary \o out.log
    /\ pc' = "oracle_done"
    /\ UNCHANGED <<ctx_i, iframe_i, form_i, btn_i, js_try, elem_i, lists, counts, env,
                   last_oracle, arg, host, fill_state, ops, report>>

InitOracle ==
    /\ pc = "oracle"
    /\ summary = <<>>
    /\ form_count = 0 /\ submitted_forms = 0 /\ submitted = FALSE
    /\ contexts = <<>> /\ ctx_i = 0
    /\ iframes = <<>> /\ iframe_i = 0
    /\ forms = <<>> /\ form_i = 0
    /\ potential_buttons = <<>> /\ btn_i = 0
    /\ js_try = 0
    /\ nearby = <<>> /\ elem_i = 0
    /\ last_oracle = NoOracle
    /\ arg = <<>>
    /\ visited_radio_groups = {}
    /\ py_locals = "unset"
    /\ dom = InitialDom
    /\ page = FormPage(0)
    /\ active = 0
    /\ faults = 0
    /\ navs = 0
    /\ ops = <<>>
    /\ report = ""
    /\ probe = NoProbe
    /\ HostOff

SpecOracle == InitOracle /\ [][CallOracle]_vars

(* --------------------- guess_input_value on its own -------------------- *)
\* the field descriptors the classifier is exercised on
GuessTypes == {"", "text", "email", "tel", "password", "date"}
GuessNames == {"", "Email", "username", "phone", "comment", "address"}
GuessPatterns == {"", "[0-9]{10}", "[a-zA-Z]+"}
GuessFields ==
    {[Element EXCEPT !.eid = 1, !.itype = t, !.name = n, !.pattern = p] :
        t \in GuessTypes, n \in GuessNames, p \in GuessPatterns}

\* the items the maps are made of, and the maps: a dict holds a key once
GuessItems ==
    {<<"email", "a@b.com">>, <<"note", "a.b@c">>, <<"Username", "bob">>, <<"phone", "555">>,
     <<"contact", "x@y">>, <<"address", "">>, <<"Comment", "hi">>}
GuessMaps ==
    {m \in UNION {[1..n -> GuessItems] : n \in 0..MaxItems} :
        \A i \in 1..Len(m), j \in 1..Len(m) : m[i][1] = m[j][1] => i = j}

\* the input elements of the page the field is on, and which are displayed
GuessInputs ==
    << [Element EXCEPT !.eid = 2, !.itype = "text", !.name = "login"],
       [Element EXCEPT !.eid = 3, !.itype = "checkbox"],
       [Element EXCEPT !.eid = 4, !.itype = "hidden", !.displayed = FALSE],
       [Element EXCEPT !.eid = 5, !.itype = "text", !.name = "q"],
       [Element EXCEPT !.eid = 6, !.itype = "text", !.name = "city"] >>
GuessPages ==
    {[inputs |-> SubSeq(GuessInputs, 2, 4), shown |-> {3, 5}],
     [inputs |-> GuessInputs, shown |-> {2, 3, 5}],
     [inputs |-> GuessInputs, shown |-> {2, 3, 5, 6}]}

\* guess_input_value called once: vis_fail, a driver call of lines 211-213
\* raised
CallGuess ==
    /\ pc = "guess"
    /\ \E f \in GuessFields, custom_data \in GuessMaps, pg \in GuessPages,
          vis_fail \in BOOLEAN :
        probe' = [called |-> TRUE, f |-> f, custom_data |-> custom_data,
                  inputs |-> pg.inputs, shown |-> pg.shown, vis_fail |-> vis_fail,
                  value |-> guess_input_value(f, custom_data, pg.inputs, pg.shown, vis_fail)]
    /\ pc' = "guess_done"
    /\ UNCHANGED <<ctx_i, iframe_i, form_i, btn_i, js_try, elem_i, lists, counts, env,
                   summary, last_oracle, arg, host, fill_state, ops, report>>

InitGuess ==
    /\ pc = "guess"
    /\ summary = <<>>
    /\ form_count = 0 /\ submitted_forms = 0 /\ submitted = FALSE
    /\ contexts = <<>> /\ ctx_i = 0
    /\ iframes = <<>> /\ iframe_i = 0
    /\ forms = <<>> /\ form_i = 0
    /\ potential_buttons = <<>> /\ btn_i = 0
    /\ js_try = 0
    /\ nearby = <<>> /\ elem_i = 0
    /\ last_oracle = NoOracle
    /\ arg = <<>>
    /\ visited_radio_groups = {}
    /\ py_locals = "unset"
    /\ dom = InitialDom
    /\ page = FormPage(0)
    /\ active = 0
    /\ faults = 0
    /\ navs = 0
    /\ ops = <<>>
    /\ report = ""
    /\ probe = NoProbe
    /\ HostOff

SpecGuess == InitGuess /\ [][CallGuess]_vars

(* ------------------------ the fill pass on its own --------------------- *)
\* a form that holds a consent checkbox and nothing else
ConsentElements ==
    << [Element EXCEPT !.eid = 51, !.unit = "consent", !.form_of = "consent",
                       !.itype = "checkbox", !.name = "consent"] >>

\* a form that holds a checkbox named after the address it asks consent for
OptInElements ==
    << [Element EXCEPT !.eid = 61, !.unit = "optin", !.form_of = "optin",
                       !.itype = "checkbox", !.name = "email_optin"] >>

\* the form units the fill pass is exercised on, each the only unit of its page
FillUnits ==
    {Form1Elements, Form2Elements, Form3Elements, BodyElements, SignupElements,
     ConsentElements, OptInElements}

FillArgs == {<<>>, EmailArg, << <<"message", "hi">> >>}

\* Lines 469-574 run once on a unit.  hidden: a field the page does not
\* display besides those of the fixture; sel: the checkbox or radio that is
\* selected when the pass starts; visited: the radio groups the forms filled
\* before left behind, which only a build whose locals() is shared keeps.
FillOnce ==
    /\ pc = "fill_once"
    /\ \E fs \in FillUnits, custom_data \in FillArgs, persist \in BOOLEAN,
          visited \in {{}, {"plan"}} :
        LET all_inputs == SelectSeq(fs, IsField)
            eids == {all_inputs[i].eid : i \in 1..Len(all_inputs)}
            ticks == {all_inputs[i].eid : i \in {j \in 1..Len(all_inputs) :
                         all_inputs[j].itype \in {"checkbox", "radio"}}}
            displayed == {fs[i].eid : i \in {j \in 1..Len(fs) : fs[j].displayed}}
        IN \E hidden \in {{}} \cup {{e} : e \in eids},
              sel \in {{}} \cup {{e} : e \in ticks},
              F \in SubsetsUpTo(FillFaultPoints(all_inputs) \ {FaultPoint("list", 0)},
                                MaxFaults) :
            /\ visited # {} => persist
            /\ probe' = [called |-> TRUE, fields |-> fs, all_inputs |-> all_inputs,
                          arg |-> custom_data, persist |-> persist, visited |-> visited,
                          selected |-> sel, shown |-> displayed \ hidden, F |-> F,
                          matched |-> LET efs == email_fields(all_inputs, fs, F)
                                      IN {efs[i].eid : i \in 1..Len(efs)},
                          r |-> FillFields("main page", 1, all_inputs, fs, custom_data,
                                           visited, persist,
                                           [selected |-> sel, shown |-> displayed \ hidden],
                                           F)]
    /\ pc' = "fill_once_done"
    /\ UNCHANGED <<ctx_i, iframe_i, form_i, btn_i, js_try, elem_i, lists, counts, env,
                   summary, last_oracle, arg, host, fill_state, ops, report>>

InitFill ==
    /\ pc = "fill_once"
    /\ summary = <<>>
    /\ form_count = 0 /\ submitted_forms = 0 /\ submitted = FALSE
    /\ contexts = <<>> /\ ctx_i = 0
    /\ iframes = <<>> /\ iframe_i = 0
    /\ forms = <<>> /\ form_i = 0
    /\ potential_buttons = <<>> /\ btn_i = 0
    /\ js_try = 0
    /\ nearby = <<>> /\ elem_i = 0
    /\ last_oracle = NoOracle
    /\ arg = <<>>
    /\ visited_radio_groups = {}
    /\ py_locals = "unset"
    /\ dom = InitialDom
    /\ page = FormPage(0)
    /\ active = 0
    /\ faults = 0
    /\ navs = 0
    /\ ops = <<>>
    /\ report = ""
    /\ probe = NoProbe
    /\ HostOff

SpecFill == InitFill /\ [][FillOnce]_vars

(* ------------------- the command line and the agent -------------------- *)
\* the tools of line 725 that use the Browser of line 78
SessionTools ==
    {"go_to_url_tool", "get_page_source_tool", "shutdown_browser_tool",
     "fill_every_form_tool"}

\* the tool calls one message of the model can ask for
Batches == UNION {[1..n -> SessionTools] : n \in 1..MaxParallel}

\* everything fill_every_form_tool keeps while it runs
tool_vars == <<ctl, lists, counts, env, summary, last_oracle, arg, probe, fill_state,
               ops, report>>

\* Browser.quit, lines 74-75: driver.quit() with no handler around it.
\* raised: the driver call raises.  A driver that raised may or may not have
\* ended the browser.
quit(by, raised) ==
    /\ quits' = Append(quits, [by |-> by, raised |-> raised])
    /\ session' \in (IF raised THEN {session, "closed"} ELSE {"closed"})

\* Lines 746-757: input() returns a text with or without a URL, or raises
\* (EOFError, KeyboardInterrupt)
ReadInput ==
    /\ main_pc = "input"
    /\ \/ main_pc' = "url_flow" /\ UNCHANGED pending
       \/ main_pc' = "agent" /\ UNCHANGED pending
       \/ main_pc' = "except" /\ pending' = "Exception"
       \/ main_pc' = "finally" /\ pending' = "BaseException"
    /\ UNCHANGED <<session, running, quits, turns, tool_vars>>

\* Lines 758-1809: the navigation of line 760 and the scripted login and
\* lookup.  Its inner handlers print and go on; what reaches line 1820 is an
\* exception of line 760 or of a handler, what passes it is not an Exception.
UrlFlow ==
    /\ main_pc = "url_flow"
    /\ \/ main_pc' = "finally" /\ UNCHANGED pending
       \/ main_pc' = "except" /\ pending' = "Exception"
       \/ main_pc' = "finally" /\ pending' = "BaseException"
    /\ UNCHANGED <<session, running, quits, turns, tool_vars>>

\* Lines 1812-1819, one step of agent.invoke between two tool batches: the
\* model asks for tool calls, or answers (line 1819), or the step raises
\* (the recursion limit of line 1815, an API error, an interrupt)
AgentStep ==
    /\ main_pc = "agent"
    /\ running = <<>>
    /\ \/ /\ turns < MaxTurns
          /\ \E batch \in Batches :
                running' = [i \in DOMAIN batch |-> [tool |-> batch[i], phase |-> "pending"]]
          /\ turns' = turns + 1
          /\ UNCHANGED <<main_pc, pending>>
       \/ main_pc' = "finally" /\ UNCHANGED <<running, turns, pending>>
       \/ main_pc' = "except" /\ pending' = "Exception" /\ UNCHANGED <<running, turns>>
       \/ main_pc' = "finally" /\ pending' = "BaseException" /\ UNCHANGED <<running, turns>>
    /\ UNCHANGED <<session, quits, tool_vars>>

\* The tool node starts a call of the batch.  The calls of one batch run on
\* a thread pool; nothing in lines 78-180 or 725-740 takes a lock.
ToolStart(i) ==
    /\ main_pc = "agent"
    /\ i \in DOMAIN running
    /\ running[i].phase = "pending"
    /\ running' = [running EXCEPT ![i].phase = "using"]
    /\ UNCHANGED <<main_pc, session, quits, turns, pending, tool_vars>>

\* The body of a tool on the session.  go_to_url_tool (141-147) and
\* get_page_source_tool (150-155) call the driver with no handler;
\* shutdown_browser_tool (158-164) calls Browser.quit with no handler;
\* fill_every_form_tool has written the fields and starts its cascade.
ToolWork(i) ==
    /\ main_pc = "agent"
    /\ i \in DOMAIN running
    /\ running[i].phase = "using"
    /\ \E raised \in BOOLEAN :
        CASE running[i].tool = "shutdown_browser_tool" ->
                /\ quit("tool", raised)
                /\ running' = [running EXCEPT ![i].phase = IF raised THEN "failed" ELSE "done"]
          [] running[i].tool = "fill_every_form_tool" ->
                /\ raised => session = "closed"
                /\ running' = [running EXCEPT
                                 ![i].phase = IF raised THEN "failed" ELSE "submitting"]
                /\ UNCHANGED <<session, quits>>
          [] OTHER ->
                /\ session = "closed" => raised
                /\ running' = [running EXCEPT ![i].phase = IF raised THEN "failed" ELSE "done"]
                /\ UNCHANGED <<session, quits>>
    /\ UNCHANGED <<main_pc, turns, pending, tool_vars>>

\* Lines 580-681 of fill_every_form_tool: the cascade and the return
ToolSubmit(i) ==
    /\ main_pc = "agent"
    /\ i \in DOMAIN running
    /\ running[i].phase = "submitting"
    /\ running' = [running EXCEPT ![i].phase = "done"]
    /\ UNCHANGED <<main_pc, session, quits, turns, pending, tool_vars>>

\* Every call of the batch has ended.  An exception of a tool is turned
\* into a message for the model or leaves agent.invoke.
BatchEnd ==
    /\ main_pc = "agent"
    /\ running # <<>>
    /\ \A i \in DOMAIN running : running[i].phase \in {"done", "failed"}
    /\ running' = <<>>
    /\ \/ UNCHANGED <<main_pc, pending>>
       \/ /\ \E i \in DOMAIN running : running[i].phase = "failed"
          /\ main_pc' = "except"
          /\ pending' = "Exception"
    /\ UNCHANGED <<session, quits, turns, tool_vars>>

\* A handler of line 1820 that leaves the program at once
ExceptHandler_exiting ==
    /\ main_pc = "except"
    /\ main_pc' = "exit"
    /\ UNCHANGED <<session, running, quits, turns, pending, tool_vars>>

\* lines 1820-1821
ExceptHandler ==
    /\ main_pc = "except"
    /\ main_pc' = "finally"
    /\ UNCHANGED <<session, running, quits, turns, pending, tool_vars>>

\* Lines 1822-1825.  An exception of browser.quit(), or one that line 1820
\* did not catch, leaves the program.
Finally ==
    /\ main_pc = "finally"
    /\ \E raised \in BOOLEAN :
        /\ quit("finally", raised)
        /\ main_pc' = IF raised \/ pending = "BaseException" THEN "crashed" ELSE "exit"
    /\ UNCHANGED <<running, turns, pending, tool_vars>>

InitCli ==
    /\ pc = "off"
    /\ summary = <<>>
    /\ form_count = 0 /\ submitted_forms = 0 /\ submitted = FALSE
    /\ contexts = <<>> /\ ctx_i = 0
    /\ iframes = <<>> /\ iframe_i = 0
    /\ forms = <<>> /\ form_i = 0
    /\ potential_buttons = <<>> /\ btn_i = 0
    /\ js_try = 0
    /\ nearby = <<>> /\ elem_i = 0
    /\ last_oracle = NoOracle
    /\ arg = <<>>
    /\ visited_radio_groups = {}
    /\ py_locals = "unset"
    /\ dom = InitialDom
    /\ page = FormPage(0)
    /\ active = 0
    /\ faults = 0
    /\ navs = 0
    /\ ops = <<>>
    /\ report = ""
    /\ probe = NoProbe
    /\ main_pc = "input" /\ session = "open" /\ running = <<>> /\ quits = <<>>
    /\ turns = 0 /\ pending = "none"

NextCli ==
    \/ ReadInput \/ UrlFlow \/ AgentStep
    \/ \E i \in 1..MaxParallel : ToolStart(i) \/ ToolWork(i) \/ ToolSubmit(i)
    \/ BatchEnd \/ ExceptHandler \/ Finally

SpecCli == InitCli /\ [][NextCli]_vars

\* The interpreter runs the main thread and the pool's threads until they
\* end: every wait of the program is bounded by a timeout of the driver.
SpecCliLive == SpecCli /\ WF_vars(NextCli)

(* ------------------------------ claims --------------------------------- *)
\* the oracle has answered a call in which no read raised
Answered == probe.called /\ ~probe.fail

\* C4 as stated: the oracle returns false whenever the URL, the markup and
\* the number of form elements are the same in both snapshots, whatever the
\* login-field counts are.
C4_SameThreeThenFalse ==
    (Answered /\ probe.s1.url = probe.s0.url /\ probe.s1.source = probe.s0.source
        /\ probe.s1.forms = probe.s0.forms)
    => ~probe.result

\* C4, amended: the oracle returns false whenever the URL, the markup and the
\* number of form elements are the same in both snapshots and the second
\* snapshot has at least as many login fields as the first.
C4_SameAndNoFewerLoginThenFalse ==
    (Answered /\ probe.s1.url = probe.s0.url /\ probe.s1.source = probe.s0.source
        /\ probe.s1.forms = probe.s0.forms /\ probe.s1.login >= probe.s0.login)
    => ~probe.result

\* C4: the three quantities are the same, the login fields went from 1 to 2,
\* and the oracle answered false
C4_Witness ==
    /\ Answered
    /\ probe.s1.url = probe.s0.url /\ probe.s1.source = probe.s0.source
    /\ probe.s1.forms = probe.s0.forms
    /\ probe.s0.login = 1 /\ probe.s1.login = 2
    /\ ~probe.result

\* a phrase of the success-indicator list occurs in the markup, whatever the case
ShowsIndicator(markup) ==
    \E phrase \in {"thank you", "submitted", "success", "message sent", "your submission",
                   "welcome", "dashboard", "account", "profile"} :
        Contains(lower(markup), phrase)

\* C5: with no internal error the oracle returns true exactly when the URL
\* differs, or the form count differs, or the markup differs and the new
\* markup contains a success-indicator phrase in any case, or the second
\* snapshot has strictly fewer login fields than the first.
C5_TrueIffOneOfFour ==
    Answered =>
        (probe.result <=>
            \/ probe.s1.url # probe.s0.url
            \/ probe.s1.forms # probe.s0.forms
            \/ (probe.s1.source # probe.s0.source /\ ShowsIndicator(probe.s1.source))
            \/ probe.s1.login < probe.s0.login)

\* C5: only the markup differs, it now holds "Thank You!" in mixed case, and
\* the oracle answered true
C5_Witness ==
    /\ Answered
    /\ probe.s1.url = probe.s0.url /\ probe.s1.forms = probe.s0.forms
    /\ probe.s1.login = probe.s0.login
    /\ probe.s0.source = PlainMarkup /\ probe.s1.source = ThankYouMarkup
    /\ probe.result

(* ------------------------- claims on the tool -------------------------- *)
StartsWith(s, prefix) == Len(s) >= Len(prefix) /\ SubSeq(s, 1, Len(prefix)) = prefix
EndsWith(s, suffix) ==
    Len(s) >= Len(suffix) /\ SubSeq(s, Len(s) - Len(suffix) + 1, Len(s)) = suffix

Positions == 1..Len(ops)
IsSubmission(o) == o.kind \in {"click", "enter", "js"}
OracleSaid(i, answers) == ops[i].kind = "oracle" /\ ops[i].value \in answers
Ended == pc \in {"done", "raised"}

\* the number of entries of the history of one kind
HowMany(kind) == Cardinality({i \in Positions : ops[i].kind = kind})

\* C1 as stated: within a form unit the submission actions follow the stage
\* order 1, 2, 3, 4, and after an answer of true from the oracle no further
\* submission action is dispatched in the invocation.
C1_OrderedAndStopsAtFirstTrue ==
    \A i \in Positions, j \in Positions :
        i < j =>
            /\ (IsSubmission(ops[i]) /\ IsSubmission(ops[j]) /\ ops[i].unit = ops[j].unit)
                    => ops[i].stage <= ops[j].stage
            /\ OracleSaid(i, {"true"}) => ~IsSubmission(ops[j])

\* C3 as stated: a context reached while its markup contains a phrase of the
\* success vocabulary is recorded as submitted at once, and from then on
\* nothing is written or clicked and no further context or form is processed.
C3_AnyPhraseShortCircuits ==
    \A i \in Positions :
        (ops[i].kind = "context" /\ ShowsIndicator(ops[i].value)) =>
            /\ i < Len(ops) /\ ops[i + 1].kind = "success"
            /\ \A j \in Positions : j > i + 1 => FALSE

\* C7 as stated: the default content is the active browsing context whenever
\* the tool switches into an iframe and when the tool ends.
C7_DefaultContentRestored ==
    /\ (pc = "enum" /\ iframe_i <= Len(iframes)) => active = 0
    /\ Ended => active = 0

\* C8 as stated: a single failing driver call never makes the tool raise.
C8_NeverRaises == faults <= 1 => pc # "raised"

\* the first line of a report with the given counts
Header(n, m) ==
    "Detected " \o ToString(n) \o " form(s) across contexts, submitted " \o ToString(m) \o ":"

\* the report says that m forms were submitted
ReportsSubmitted(m) == \E n \in 0..Len(ops) : StartsWith(report, Header(n, m) \o "\n")

\* every stage-1 click on the unit was answered false by the oracle
Stage1AllFalse(u) ==
    \A i \in Positions :
        (ops[i].kind = "click" /\ ops[i].stage = 1 /\ ops[i].unit = u) =>
            i < Len(ops) /\ OracleSaid(i + 1, {"false", "error"})

\* the Enter key sent for the unit was answered true by the oracle
EnterTrue(u) ==
    \E i \in Positions :
        ops[i].kind = "enter" /\ ops[i].unit = u /\ i < Len(ops) /\ OracleSaid(i + 1, {"true"})

\* the log holds the Enter-key entry directly followed by the oracle's entry
EnterCredited ==
    \E k \in 1..(Len(summary) - 1) :
        /\ EndsWith(summary[k], "Submitted form by sending Enter key.")
        /\ StartsWith(summary[k + 1], "Submission change detected: ")
        /\ Contains(report, "\n" \o summary[k] \o "\n" \o summary[k + 1])

\* C2: when the tool has returned and, for some form unit, every stage-1
\* click was answered false and the Enter key was answered true, the report
\* holds no "Submission detected after clicking" entry, holds the Enter-key
\* entry followed by the oracle's change entry, and counts exactly one
\* submission, recorded once for that unit.
C2_EnterGetsTheCredit ==
    \A u \in 1..form_count :
        (pc = "done" /\ EnterTrue(u) /\ Stage1AllFalse(u)) =>
            /\ ~Contains(report, "Submission detected after clicking")
            /\ EnterCredited
            /\ ReportsSubmitted(1)
            /\ Cardinality({i \in Positions : ops[i].kind = "success" /\ ops[i].unit = u}) = 1

\* C2: the tool has returned after two stage-1 clicks on a unit answered
\* false and an Enter key on it answered true
C2_Witness ==
    /\ pc = "done"
    /\ \E u \in 1..form_count :
        /\ EnterTrue(u) /\ Stage1AllFalse(u)
        /\ Cardinality({i \in Positions : ops[i].kind = "click" /\ ops[i].stage = 1
                                           /\ ops[i].unit = u}) >= 2

\* the oracle was called in this step and a read inside it raised
OracleErredNow ==
    \E k \in (Len(ops) + 1)..Len(ops') :
        ops'[k].kind = "oracle" /\ ops'[k].value = "error"

OracleErrors(log) ==
    Cardinality({k \in 1..Len(log) : StartsWith(log[k], "Error in detect_submission_change: ")})

\* C6: a step in which a read inside the oracle raises does not make the tool
\* raise: it appends exactly one error entry, as the last entry of the log,
\* records no submission, and goes on to the next candidate (stage 1), the
\* next stage (stages 2 and 3) or the next element (stage 4).
C6_OracleErrorIsNoChange ==
    [][OracleErredNow =>
        /\ pc' # "raised"
        /\ OracleErrors(summary') = OracleErrors(summary) + 1
        /\ StartsWith(summary'[Len(summary')], "Error in detect_submission_change: ")
        /\ ~submitted' /\ submitted_forms' = submitted_forms
        /\ (pc = "click" => pc' = "click" /\ btn_i' = btn_i + 1)
        /\ (pc = "enter" => pc' = "js")
        /\ (pc = "js" => pc' = "confirm")
        /\ (pc = "last_click" => pc' = "last_click" /\ elem_i' = elem_i + 1)]_vars

\* C6: the oracle's read raised after the Enter key and the script stage is next
C6_Witness ==
    /\ pc = "js"
    /\ Len(ops) > 0 /\ OracleSaid(Len(ops), {"error"})
    /\ StartsWith(summary[Len(summary)], "Error in detect_submission_change: ")
    /\ ~submitted

\* the markup holds one of the two phrases of the short-circuit test
ShowsThankYou(markup) ==
    Contains(lower(markup), "thank you") \/ Contains(lower(markup), "your submission")

OraclesAllFalse == \A i \in Positions : ops[i].kind = "oracle" => ops[i].value = "false"

\* C9 as stated: when no driver call fails and every answer of the oracle is
\* false, the tool returns a report whose submitted count is 0.
C9_AllFalseThenZero ==
    (Ended /\ faults = 0 /\ OraclesAllFalse) => (pc = "done" /\ ReportsSubmitted(0))

\* C9, amended: when no driver call fails, every answer of the oracle is
\* false and no context shows "thank you" or "your submission" when the tool
\* reaches it, the tool returns a report whose submitted count is 0.
C9_AllFalseAndNoThankYouThenZero ==
    (Ended /\ faults = 0 /\ OraclesAllFalse
        /\ \A i \in Positions : ops[i].kind = "context" => ~ShowsThankYou(ops[i].value))
    => (pc = "done" /\ ReportsSubmitted(0) /\ submitted_forms = 0)

\* C9: the tool has returned without a failure after actions of all four
\* stages, each answered false
C9_Witness ==
    /\ pc = "done" /\ faults = 0 /\ OraclesAllFalse
    /\ \A stage \in 1..4 :
        \E i \in Positions : IsSubmission(ops[i]) /\ ops[i].stage = stage
    /\ ReportsSubmitted(0)

\* the entries of a log, each on a line of its own
RECURSIVE Lines(_)
Lines(log) ==
    IF Len(log) = 0 THEN ""
    ELSE IF Len(log) = 1 THEN log[1]
    ELSE log[1] \o "\n" \o Lines(Tail(log))

\* C10: the returned string is the header with N, the number of form units
\* whose processing started, and M, the number of times a success was
\* recorded, then a newline and the log entries in the order they were
\* appended, joined by newlines.
C10_ReportIsHeaderAndLog ==
    pc = "done" =>
        report = Header(HowMany("form"), HowMany("success")) \o "\n" \o Lines(summary)

\* C10: the tool has returned after starting two form units and recording
\* one success
C10_Witness ==
    /\ pc = "done"
    /\ HowMany("form") = 2 /\ HowMany("success") = 1
    /\ Len(summary) >= 3
    /\ StartsWith(report, "Detected 2 form(s) across contexts, submitted 1:\n")

(* ----------------------- claims on the two counts ---------------------- *)
\* a success was recorded for a context that showed "thank you" or "your
\* submission" when the tool reached it
ShortCircuited ==
    \E i \in Positions :
        /\ i > 1 /\ ops[i].kind = "success" /\ ops[i].stage = 0
        /\ ops[i - 1].kind = "context" /\ ShowsThankYou(ops[i - 1].value)

\* C11 as stated: in every returned report the submitted count M does not
\* exceed the detected-forms count N.
C11_SubmittedAtMostDetected ==
    pc = "done" =>
        \E n \in 0..Len(ops), m \in 0..Len(ops) :
            StartsWith(report, Header(n, m) \o "\n") /\ m <= n

\* C11, amended: in every returned report the submitted count M is at most
\* 1, and M exceeds the detected-forms count N only when no form was seen
\* (N = 0) and the success was recorded for a context that already showed
\* "thank you" or "your submission".
C11_SubmittedAtMostDetectedOrShortCircuit ==
    pc = "done" =>
        \E n \in 0..Len(ops), m \in 0..Len(ops) :
            /\ StartsWith(report, Header(n, m) \o "\n")
            /\ m <= 1
            /\ (m <= n \/ (n = 0 /\ ShortCircuited))

\* C11: the tool has returned "Detected 0 form(s) ..., submitted 1" after a
\* short-circuit
C11_Witness ==
    /\ pc = "done"
    /\ ShortCircuited
    /\ StartsWith(report, "Detected 0 form(s) across contexts, submitted 1:\n")

(* ---------------------- the end-to-end scenarios ----------------------- *)
\* the history entry at i is a dispatched action after which the oracle saw
\* the same page in both of its snapshots
Unanswered(i) ==
    /\ ~EndsWith(ops[i].value, "moved")
    /\ i < Len(ops) /\ OracleSaid(i + 1, {"false"})

\* The tool has returned without a failing driver call after it was started
\* on the signup page with the map {"email": "a@b.com"}, and the stage-1
\* click on the submit button was the first action to replace the page, by
\* the thank-you page.
SignupScenario ==
    /\ pc = "done" /\ faults = 0 /\ arg = EmailArg
    /\ Len(ops) > 0 /\ ops[1].kind = "context" /\ ops[1].value = SignupMarkup
    /\ page = ThankYouPage
    /\ \E i \in Positions :
        /\ ops[i].kind = "click" /\ ops[i].stage = 1 /\ ops[i].target = 42
        /\ ~Unanswered(i)
        /\ \A j \in 1..(i - 1) : IsSubmission(ops[j]) => Unanswered(j)

\* C19 as stated: in the signup scenario the email input was written with
\* "a@b.com" and with nothing else, the report begins "Detected 1 form(s)
\* across contexts, submitted 1:" and holds the entry that confirms the
\* thank-you page, whenever the URL changed relative to the two snapshots of
\* the oracle.
C19_ThankYouReportedForEveryTiming ==
    SignupScenario =>
        /\ \E k \in Positions :
                ops[k].kind \in {"write", "email_write"} /\ ops[k].target = 41
        /\ \A k \in Positions :
                (ops[k].kind \in {"write", "email_write"} /\ ops[k].target = 41)
                    => ops[k].value = "a@b.com"
        /\ StartsWith(report, "Detected 1 form(s) across contexts, submitted 1:")
        /\ Contains(report, "Confirmed 'Thank you' page after submission.")

\* the log entries that start with the context name and the given text
EntriesOf(text) == {k \in 1..Len(summary) : StartsWith(summary[k], "[main page] " \o text)}

\* The tool has returned without a failing driver call and without a
\* replacement of the page, with an empty map, on the page that has no form
\* element and bare inputs in its body.
BareInputsScenario ==
    /\ pc = "done" /\ faults = 0 /\ navs = 0 /\ arg = <<>>
    /\ page = FormPage(0)

\* C20: in the bare-inputs scenario exactly one form unit, the body, was
\* processed; no stage-1 click was dispatched; the Enter key was sent and
\* answered false; both script-level attempts failed without dispatching
\* anything, after the Enter key; and a last-resort click was dispatched
\* after them; the report counts 1 form and 0 submissions.
C20_BodyCascadeReachesLastResort ==
    BareInputsScenario =>
        /\ HowMany("form") = 1 /\ forms = <<"body">>
        /\ \A i \in Positions : ops[i].kind = "click" => ops[i].stage = 4
        /\ HowMany("enter") = 1 /\ HowMany("js") = 0
        /\ OraclesAllFalse
        /\ \E e \in EntriesOf("Submitted form by sending Enter key."),
              j1 \in EntriesOf("JavaScript submission attempt 1 failed: "),
              j2 \in EntriesOf("JavaScript submission attempt 2 failed: "),
              c \in EntriesOf("Last resort click on ") :
                e < j1 /\ j1 < j2 /\ j2 < c
        /\ Cardinality(EntriesOf("JavaScript submission attempt ")) = JsRetries
        /\ \E i \in Positions : ops[i].kind = "click" /\ ops[i].stage = 4
        /\ StartsWith(report, "Detected 1 form(s) across contexts, submitted 0:\n")

\* C20: the tool has returned in the bare-inputs scenario after a last-resort
\* click on the span of the body
C20_Witness ==
    /\ BareInputsScenario
    /\ \E i \in Positions : ops[i].kind = "click" /\ ops[i].stage = 4 /\ ops[i].target = 94
    /\ HowMany("enter") = 1

(* ----------------------- claims on the classifier ---------------------- *)
\* the classifier has returned
Guessed == pc = "guess_done"

\* name, id and placeholder of a field, lower-cased and concatenated
IdentityOf(f) == lower(f.name \o f.id \o f.placeholder)

ValuesOf(map) == {map[i][2] : i \in 1..Len(map)}

\* the value holds an "@" and a "." anywhere
HasAtAndDot(v) == Contains(v, "@") /\ Contains(v, ".")

\* the value holds an "@" and a "." after it
HasDotAfterAt(v) ==
    \E i \in 1..Len(v), j \in 1..Len(v) : i < j /\ CharAt(v, i) = "@" /\ CharAt(v, j) = "."

\* the position of the first item of the map whose value satisfies Test, 0
\* when there is none
FirstItem(map, Test(_)) ==
    IF \E i \in 1..Len(map) : Test(map[i])
    THEN CHOOSE i \in 1..Len(map) : Test(map[i]) /\ \A j \in 1..(i - 1) : ~Test(map[j])
    ELSE 0

VisibleOf(inputs, shown) ==
    LET Kept(e) == e.eid \in shown /\ e.itype \notin {"hidden", "submit", "button"}
    IN SelectSeq(inputs, Kept)

\* The decision list of the classifier: each rule with whether it applies
\* and what it returns.  scan_ok: the scan of the visible inputs did not
\* raise; EmailShaped: what an email-shaped value is.
DecisionList(f, map, visible, scan_ok, EmailShaped(_)) ==
    LET id == IdentityOf(f)
        type == lower(f.itype)
        Shaped(item) == EmailShaped(item[2])
        UserLike(item) == Contains(item[2], "@") \/ Contains(lower(item[1]), "user")
        Matches(item) == Contains(id, lower(item[1]))
        ValueAt(k) == IF k = 0 THEN "" ELSE map[k][2]
        short == Len(map) > 0 /\ scan_ok /\ Len(visible) <= 3
        login_like ==
            \E i \in 1..Len(visible), x \in {"user", "email", "login", "account"} :
                Contains(IdentityOf(visible[i]), x)
        Rule(applies, result) == [applies |-> applies, result |-> result]
    IN << Rule((Contains(id, "email") \/ type = "email") /\ FirstItem(map, Shaped) > 0,
               ValueAt(FirstItem(map, Shaped))),
          Rule(short /\ FirstItem(map, Shaped) > 0, ValueAt(FirstItem(map, Shaped))),
          Rule(short /\ login_like /\ FirstItem(map, UserLike) > 0,
               ValueAt(FirstItem(map, UserLike))),
          Rule(FirstItem(map, Matches) > 0, ValueAt(FirstItem(map, Matches))),
          Rule(Contains(f.pattern, "10"), FakeDigits),
          Rule(Contains(f.pattern, "[a-zA-Z]"), FakeWord),
          Rule(Contains(id, "email"), FakeEmail),
          Rule(Contains(id, "phone") \/ Contains(type, "tel"), FakePhone),
          Rule(type = "password", FakePassword),
          Rule(type = "date", FakeDate),
          Rule(Contains(id, "name") \/ Contains(id, "user"), FakeName),
          Rule(Contains(id, "message") \/ Contains(id, "comment")
                   \/ Contains(id, "description"), FakeParagraph),
          Rule(Contains(id, "address"), FakeAddress),
          Rule(TRUE, FakeText) >>

\* the result of the first rule of the list that applies
FirstMatch(rules) ==
    rules[CHOOSE k \in 1..Len(rules) :
            rules[k].applies /\ \A j \in 1..(k - 1) : ~rules[j].applies].result

C17_KeyMatchGivesMapValue ==
    (Guessed /\ \E i \in 1..Len(probe.custom_data) :
                    Contains(IdentityOf(probe.f), lower(probe.custom_data[i][1])))
    => probe.value \in ValuesOf(probe.custom_data)

\* C17: a field named "phone" that declares the pattern "[0-9]{10}", on a
\* page with four visible inputs, got the map's value "555" from the key
\* "phone", not ten synthetic digits
C17_Witness ==
    /\ Guessed
    /\ probe.f.name = "phone" /\ probe.f.pattern = "[0-9]{10}" /\ probe.f.itype = "tel"
    /\ probe.custom_data = << <<"phone", "555">> >>
    /\ Len(VisibleOf(probe.inputs, probe.shown)) = 4
    /\ probe.value = "555"

(* ------------------------ claims on the fill pass ---------------------- *)
\* the fill pass of a unit has ended without raising
Filled == pc = "fill_once_done" /\ ~probe.r.raised

\* the positions of the writes of the pass into the field, by the email pass
\* or by the generic pass
WritesTo(eid, kinds) ==
    {k \in 1..Len(probe.r.ops) :
        probe.r.ops[k].kind \in kinds /\ probe.r.ops[k].target = eid}

AllWrites == {k \in 1..Len(probe.r.ops) : probe.r.ops[k].kind \in {"write", "email_write"}}

\* the input elements of the page that are displayed, given the displayed
\* elements, and not of type hidden, submit or button
VisibleOnPage(shown) ==
    LET IsInput(e) == e.tag = "input" IN VisibleOf(SelectSeq(probe.fields, IsInput), shown)

\* the values of the map that hold an "@" and a "."
EmailsOf(map) == {v \in ValuesOf(map) : HasAtAndDot(v)}

\* the fields the generic pass sets a value for: enabled and not hidden,
\* checkbox, radio, button, submit, reset or file
Eligible ==
    {i \in 1..Len(probe.all_inputs) :
        /\ probe.all_inputs[i].enabled
        /\ lower(probe.all_inputs[i].itype)
              \notin {"hidden", "checkbox", "radio", "button", "submit", "reset", "file"}}

RadioGroups ==
    {probe.all_inputs[i].name : i \in {j \in 1..Len(probe.all_inputs) :
        /\ lower(probe.all_inputs[j].itype) = "radio"
        /\ probe.all_inputs[j].enabled /\ probe.all_inputs[j].name # ""}}

\* the radios of a group that are selected, given the selected elements
SelectedOf(group, selected) ==
    {i \in 1..Len(probe.all_inputs) :
        /\ lower(probe.all_inputs[i].itype) = "radio" /\ probe.all_inputs[i].name = group
        /\ probe.all_inputs[i].eid \in selected}

\* C14 as stated: when no driver call raises, after the fill pass of a unit
\* exactly one radio of each group of enabled radios that share a non-empty
\* name is selected, whatever was selected before and whatever forms were
\* filled before.
C14_OneRadioPerGroup ==
    (Filled /\ probe.F = {}) =>
        \A group \in RadioGroups : Cardinality(SelectedOf(group, probe.r.selected)) = 1

\* C15 as stated: when the map holds an email value and no driver call
\* raises, a field that is enabled and displayed and that the email
\* detection matched is not written by the generic pass and is written
\* exactly once by the email pass.
C15_MatchedFieldWrittenOnce ==
    (Filled /\ probe.F = {} /\ EmailsOf(probe.arg) # {}) =>
        \A i \in 1..Len(probe.all_inputs) :
            LET f == probe.all_inputs[i]
            IN (f.eid \in probe.matched /\ f.enabled /\ f.eid \in probe.shown) =>
                /\ WritesTo(f.eid, {"write"}) = {}
                /\ Cardinality(WritesTo(f.eid, {"email_write"})) = 1

\* the log entries of the pass that report an error
ErrorEntries == {k \in 1..Len(probe.r.log) : Contains(probe.r.log[k], "Error")}

\* C18: with an empty map the email pass writes nothing and every value
\* written is the synthetic value of its field; when no driver call raises,
\* no error is logged and every field the generic pass sets a value for is
\* written exactly once.
C18_EmptyMapGivesSyntheticValues ==
    (pc = "fill_once_done" /\ probe.arg = <<>>) =>
        /\ \A k \in 1..Len(probe.r.ops) : probe.r.ops[k].kind # "email_write"
        /\ \A i \in 1..Len(probe.all_inputs) :
            LET f == probe.all_inputs[i]
            IN \A k \in WritesTo(f.eid, {"write"}) :
                /\ i \in Eligible
                /\ probe.r.ops[k].value
                      = FirstMatch(DecisionList(f, <<>>, <<>>, TRUE, HasAtAndDot))
        /\ probe.F = {} =>
            /\ ~probe.r.raised /\ ErrorEntries = {}
            /\ \A i \in Eligible :
                  Cardinality(WritesTo(probe.all_inputs[i].eid, {"write"})) = 1

\* C18: the first form was filled with an empty map: its email input got the
\* synthetic email although the email detection matched it
C18_Witness ==
    /\ Filled
    /\ probe.fields = Form1Elements /\ probe.arg = <<>> /\ probe.F = {}
    /\ 11 \in probe.matched
    /\ \E k \in WritesTo(11, {"write"}) : probe.r.ops[k].value = FakeEmail

(* ------------------- claims on the entry-point step -------------------- *)
\* the log entries of a wait of the entry-point step that timed out
EntryTimeouts == EntriesOf("Error navigating to form: " \o TimeoutMsg)

\* a step of the entry point in which no driver call raises an error of its
\* own and a wait times out: no login or sign-in element is present, or one
\* is clicked and no login field appears on the page the click leads to
EntryWaitTimesOut ==
    /\ pc = "entry"
    /\ faults' = faults
    /\ \/ Len(page.links) = 0
       \/ first_interactable(page.links) > 0 /\ login_fields_on[page'] = 0

\* the submission cascade ran: it dispatched a submission action or logged
\* a failed attempt of its script stage
CascadeRan ==
    \/ \E i \in Positions : IsSubmission(ops[i])
    \/ \E k \in 1..Len(summary) : Contains(summary[k], "JavaScript submission attempt")

\* C21: a wait of the entry-point step that times out is not retried and
\* does not end the invocation: the step logs one entry for it, dispatches
\* at most one click and goes on to the enumeration of the iframes; and an
\* invocation that logged the timeout and in which no driver call raised
\* returns after it reached every context and, unless a context showed the
\* thank-you page when it was reached, filled a form unit and ran the
\* submission cascade.
C21_EntryTimeoutIsLoggedAndPassed ==
    /\ [][EntryWaitTimesOut =>
            /\ pc' = "list_iframes"
            /\ Cardinality(EntryTimeouts') = 1
            /\ summary'[Len(summary')] = "[main page] Error navigating to form: " \o TimeoutMsg
            /\ Len(ops') <= Len(ops) + 1]_vars
    /\ []((Ended /\ faults = 0 /\ EntryTimeouts # {}) =>
            /\ pc = "done"
            /\ Cardinality(EntryTimeouts) = 1
            /\ HowMany("entry_click") <= 1
            /\ HowMany("context") >= 1
            /\ ~ShortCircuited =>
                /\ HowMany("form") >= 1
                /\ CascadeRan)

\* C21: the login link was clicked, no login field appeared, the timeout was
\* logged, and the invocation went on to fill a form unit and to run the
\* submission cascade
C21_Witness ==
    /\ pc = "done" /\ faults = 0
    /\ HowMany("entry_click") = 1
    /\ EntryTimeouts # {}
    /\ HowMany("form") >= 1
    /\ CascadeRan

(* ------------------------ claims on the log ---------------------------- *)
\* C25: the action log of an invocation is append-only: in every step the
\* log before the step is a prefix of the log after it, whether the entries
\* of the step come from the orchestrator or from detect_submission_change.
C25_LogIsAppendOnly ==
    [][/\ Len(summary') >= Len(summary)
       /\ SubSeq(summary', 1, Len(summary)) = summary]_vars

\* C25: a returned invocation whose log holds an entry of the entry-point
\* step, then entries of the cascade, then an entry of the oracle
C25_Witness ==
    /\ pc = "done"
    /\ \E i, j, k \in 1..Len(summary) :
        /\ i < j /\ j < k
        /\ StartsWith(summary[i], "[main page] Error navigating to form")
        /\ Contains(summary[j], "Attempted submission by clicking candidate")
        /\ StartsWith(summary[k], "Submission change detected")

(* ------------------------ claims on the contexts ----------------------- *)
\* the steps that list, fill and submit the forms of the context at ctx_i
InContext == pc \notin {"entry", "list_iframes", "enum", "context", "return", "done", "raised"}

\* C27 as stated: once the contexts are listed they are the main page
\* followed by one entry per iframe, and while the entry of an iframe is
\* processed the active browsing context is that iframe (no driver call
\* having raised).
C27_IframeEntryIsProcessedInsideIframe ==
    faults = 0 =>
        /\ pc \notin {"entry", "list_iframes", "enum"} =>
            /\ Len(contexts) = 1 + Len(iframes)
            /\ contexts[1] = "main page"
            /\ \A i \in 1..Len(iframes) : StartsWith(contexts[i + 1], "iframe '")
        /\ InContext =>
            active = ctx_i - 1

\* the form units of the page the browser shows
UnitsOf(p) == IF p.forms = 0 THEN 1 ELSE p.forms

\* C28 as stated: in a returned invocation in which no driver call raised
\* and the page was never replaced, every form unit of the page is processed
\* at most once: neither the detected-forms count nor the number of fill
\* passes exceeds the number of form units of the page.
C28_EachUnitProcessedAtMostOnce ==
    (pc = "done" /\ faults = 0 /\ navs = 0) =>
        /\ form_count <= UnitsOf(page)
        /\ HowMany("form") <= UnitsOf(page)

\* C29 as stated: an entry-point step on a page without login or sign-in
\* element, in which no driver call raises, clicks the first displayed and
\* enabled element whose text contains "contact" when there is one; and no
\* invocation dispatches more than one entry-point click.
C29_ContactFallbackAndOneClick ==
    /\ [][(/\ pc = "entry"
           /\ faults' = faults
           /\ Len(page.links) = 0
           /\ \E i \in 1..Len(contact_links(page)) :
                /\ contact_links(page)[i].enabled
                /\ contact_links(page)[i].eid \in dom.shown) =>
            /\ ops' = Append(ops, Op("entry_click", 0))
            /\ summary' = Append(summary,
                   "[main page] Clicked potential 'contact' link to access form.")]_vars
    /\ [](HowMany("entry_click") <= 1)

(* ----------------- claims on radios and checkboxes --------------------- *)
\* the clicks the pass dispatched on the fields whose position is in S
ClicksOn(S) ==
    {k \in 1..Len(probe.r.ops) :
        /\ probe.r.ops[k].kind = "field_click"
        /\ \E i \in S : probe.all_inputs[i].eid = probe.r.ops[k].target}

\* the radios of a group, by position
RadiosOf(group) ==
    {i \in 1..Len(probe.all_inputs) :
        lower(probe.all_inputs[i].itype) = "radio" /\ probe.all_inputs[i].name = group}

\* C26 as stated: while one form is filled, at most one radio input of each
\* group of radios that share a name is clicked.
C26_AtMostOneClickPerRadioGroup ==
    Filled => \A group \in RadioGroups : Cardinality(ClicksOn(RadiosOf(group))) <= 1

\* the enabled checkboxes of the unit, by position
Checkboxes ==
    {i \in 1..Len(probe.all_inputs) :
        lower(probe.all_inputs[i].itype) = "checkbox" /\ probe.all_inputs[i].enabled}

\* C30 as stated: after a fill pass in which no driver call raised every
\* enabled checkbox of the unit is checked, one that was checked before was
\* not clicked and one that was not was clicked once, whatever its name and
\* whatever the map holds.
C30_EveryCheckboxChecked ==
    (Filled /\ probe.F = {}) =>
        \A i \in Checkboxes :
            /\ probe.all_inputs[i].eid \in probe.r.selected
            /\ Cardinality(ClicksOn({i}))
                  = (IF probe.all_inputs[i].eid \in probe.selected THEN 0 ELSE 1)

(* ------------------ claims on the browser session ---------------------- *)
\* C22 as stated: no call of the browser's shutdown raises to its caller,
\* whether it is the first call or a later one and whether or not the
\* driver reports an error.
C22_ShutdownRaisesNothing ==
    \A k \in 1..Len(quits) : ~quits[k].raised

\* the finally block of line 1822 has called browser.quit()
ShutdownInvoked == \E k \in 1..Len(quits) : quits[k].by = "finally"

\* C23: once the input has been read (the URL-driven flow or the agent flow
\* has been entered), browser.quit() of the finally block is eventually
\* called, after either flow and after any exception raised by either.
C23_ShutdownEventuallyInvoked ==
    (main_pc \in {"url_flow", "agent"}) ~> ShutdownInvoked

\* C23: the agent ran a batch in which a tool raised, the exception left
\* agent.invoke and was caught at line 1820, and the finally block called
\* browser.quit()
C23_Witness ==
    /\ main_pc = "exit"
    /\ turns >= 1
    /\ pending = "Exception"
    /\ ShutdownInvoked

\* the calls of the batch that are using the session
Using == {i \in DOMAIN running : running[i].phase \in {"using", "submitting"}}

\* C24 as stated: at most one tool call is using the shared session at any
\* time, and no navigation or shutdown of another call is carried out while a
\* fill is between its field writes and its submission attempts.
C24_OneOperationAtATime ==
    /\ [](Cardinality(Using) <= 1)
    /\ [][\A i \in DOMAIN running :
            (running[i].tool = "fill_every_form_tool" /\ running[i].phase = "submitting") =>
                \A j \in DOMAIN running \ {i} :
                    (/\ running[j].tool \in {"go_to_url_tool", "shutdown_browser_tool"}
                     /\ running[j].phase = "using")
                    => running'[j].phase = "using"]_vars

(* ------------------------ claims on the writes ------------------------- *)
\* the input types the fill pass is to leave alone
NeverWritten == {"hidden", "button", "submit", "reset", "file"}

\* the type of the field of the unit that a write of the pass went to
TypeOfTarget(k) ==
    LET i == CHOOSE j \in 1..Len(probe.fields) : probe.fields[j].eid = probe.r.ops[k].target
    IN lower(probe.fields[i].itype)

\* C31 as stated: neither the generic pass nor the email pass clears or
\* sends keys to an input of type hidden, button, submit, reset or file.
C31_NoWriteToButtonsOrHidden ==
    pc = "fill_once_done" =>
        \A k \in AllWrites : TypeOfTarget(k) \notin NeverWritten

(* --------------------- claims on the candidates ------------------------ *)
\* stage 1 is about to handle its first candidate: the list of line 581 is
\* what the detection of lines 583-592 has just built
Detected == pc = "click" /\ btn_i = 1

\* the element has a button or input tag or a submission word in its text
LooksLikeSubmit(e) ==
    \/ e.tag \in {"button", "input"}
    \/ \E k \in {"submit", "send", "save", "confirm", "message"} : Contains(lower(e.text), k)

\* the element is inside the form unit or is a sibling of it
AssociatedWith(e, unit) ==
    \/ \E i \in 1..Len(Descendants(unit, page)) : Descendants(unit, page)[i].eid = e.eid
    \/ unit \in e.sibling_of

\* the elements of a list that qualify as candidates of the unit
QualifyingIn(elements, unit) ==
    SelectSeq(elements,
              LAMBDA e : /\ IsButtonLike(e) /\ e.eid \in dom.shown /\ e.enabled
                         /\ is_submit_candidate(e, unit))

Stage1Clicks == {i \in Positions : ops[i].kind = "click" /\ ops[i].stage = 1}

\* C33 as stated: when no driver call raises, the clicks of stage 1 on a
\* form go through its candidates in document order, every click is received
\* by the candidate itself, and the oracle is consulted after every click.
C33_CandidateItselfIsClicked ==
    faults = 0 =>
        \A i \in Stage1Clicks :
            /\ StartsWith(ops[i].value, "self")
            /\ i < Len(ops) /\ ops[i + 1].kind = "oracle"
            /\ \A j \in Stage1Clicks :
                  (j < i /\ ops[j].unit = ops[i].unit) => ops[j].target < ops[i].target

(* ----------------------- claims on the stages -------------------------- *)
\* the script submissions dispatched for a form unit
JsOps(unit) == {i \in Positions : ops[i].kind = "js" /\ ops[i].unit = unit}

\* C34 as stated: the script-level submission is dispatched at most twice
\* per form and the oracle is consulted after every dispatched attempt; and
\* when no driver call raised and the cascade has moved on to the last-resort
\* stage after a dispatched attempt that the oracle answered with no change, a
\* second attempt was dispatched before.
C34_ScriptSubmissionIsRetried ==
    /\ \A u \in 1..form_count : Cardinality(JsOps(u)) <= JsRetries
    /\ \A i \in Positions :
          ops[i].kind = "js" => (i < Len(ops) /\ ops[i + 1].kind = "oracle")
    /\ (faults = 0 /\ pc \in {"last_resort", "last_click"} /\ JsOps(form_count) # {}) =>
          Cardinality(JsOps(form_count)) = 2

\* the successes the cascade recorded (stage 0 is the short circuit)
CascadeSuccesses == {i \in Positions : ops[i].kind = "success" /\ ops[i].stage \in 1..4}

\* C35 as stated: in a returned invocation in which no driver call raised,
\* when a stage of the cascade recorded a success and the page shows "thank
\* you" or "your submission", the log holds the confirmation entry and no
\* form was processed after the success.
C35_SuccessIsConfirmedAndEndsTheContext ==
    (pc = "done" /\ faults = 0 /\ CascadeSuccesses # {} /\ thank_you_on[page]) =>
        /\ \E k \in 1..Len(summary) :
              EndsWith(summary[k], "Confirmed 'Thank you' page after submission.")
        /\ \A i \in CascadeSuccesses : \A j \in Positions : j > i => ops[j].kind # "form"

\* C36 as stated: every answer of the oracle in the cascade follows the
\* dispatch of the action it judges, and when the action had changed the URL
\* by the time the oracle took its first snapshot the oracle, unless one of
\* its reads raised, answers true.
C36_UrlChangeBeforeFirstSnapshotIsSuccess ==
    \A i \in Positions :
        /\ ops[i].kind = "oracle" => (i > 1 /\ IsSubmission(ops[i - 1]))
        /\ (/\ IsSubmission(ops[i]) /\ EndsWith(ops[i].value, "moved")
            /\ i < Len(ops) /\ ops[i + 1].kind = "oracle" /\ ops[i + 1].value # "error")
           => ops[i + 1].value = "true"

\* C37: the submitted count is 0 or 1 and is the number of successes
\* recorded; a recorded success is the last thing the invocation does to the
\* page: no stage, form or context is processed after it; and the returned
\* report states that count.
C37_SubmittedCountAtMostOne ==
    /\ submitted_forms \in {0, 1}
    /\ HowMany("success") = submitted_forms
    /\ \A i \in Positions : ops[i].kind = "success" => i = Len(ops)
    /\ pc = "done" =>
          \E n \in 0..form_count :
              StartsWith(report, "Detected " \o ToString(n) \o " form(s) across contexts, submitted "
                                 \o ToString(submitted_forms) \o ":\n")

\* C37: an invocation returned with one submission recorded by the cascade
\* for the first of two forms of a page; the second form was not processed
C37_Witness ==
    /\ pc = "done"
    /\ submitted_forms = 1
    /\ Len(forms) = 2 /\ form_i = 1
    /\ HowMany("form") = 1
    /\ \E i \in Positions : ops[i].kind = "success" /\ ops[i].stage >= 1

(* ------------------ claims on the submission entries ------------------- *)
\* the log entries that say a form was submitted by the given means
SubmittedEntries(how) ==
    {k \in 1..Len(summary) : EndsWith(summary[k], "Submitted form " \o how)}

\* C38 as stated: a returned report whose submitted count is 0 holds no
\* entry saying that a form was submitted by the Enter key or by the script.
C38_SubmittedEntryOnlyWhenConfirmed ==
    (pc = "done" /\ submitted_forms = 0) =>
        /\ SubmittedEntries("by sending Enter key.") = {}
        /\ SubmittedEntries("using enhanced JavaScript.") = {}

\* C38 as amended: the entries record the dispatch of the action, not its
\* confirmation: the log holds one "Submitted form by sending Enter key."
\* per Enter key sent and one "Submitted form using enhanced JavaScript."
\* per script submission run, whatever the oracle answers afterwards; the
\* submitted count alone says whether a submission was confirmed.
C38_SubmittedEntryPerDispatch ==
    /\ Cardinality(SubmittedEntries("by sending Enter key.")) = HowMany("enter")
    /\ Cardinality(SubmittedEntries("using enhanced JavaScript.")) = HowMany("js")
    /\ submitted_forms = HowMany("success")

\* C38: a returned report with a submitted count of 0 whose log says that
\* the form was submitted by the Enter key and by the script
C38_Witness ==
    /\ pc = "done" /\ submitted_forms = 0
    /\ SubmittedEntries("by sending Enter key.") # {}
    /\ SubmittedEntries("using enhanced JavaScript.") # {}
    /\ ReportsSubmitted(0)

(* ------------------------ claims on termination ------------------------ *)
\* C39: when every driver call returns or raises, every invocation of
\* fill_every_form_tool ends: it returns its report or raises.
C39_InvocationTerminates == <>Ended

\* C39: an invocation that went through both forms of a page and through
\* all four stages of the cascade for the second one, and returned
C39_Witness ==
    /\ pc = "done"
    /\ form_count = 2
    /\ submitted_forms = 0
    /\ \E i \in Positions : ops[i].kind = "click" /\ ops[i].stage = 4 /\ ops[i].unit = 2
    /\ JsOps(2) # {}

====
